---- MODULE Spec2Model ----
(***************************************************************************)
(* WebSnapPro: the crawl-and-download engine (class WebsiteSaver) and the  *)
(* thread that drives it (class DownloadThread), as a state machine.       *)
(*                                                                         *)
(* Threads: the orchestrator (DownloadThread.run -> save_website), one     *)
(* page worker (page_downloader), thread_count resource workers            *)
(* (resource_downloader) and the user interface, whose only step here is   *)
(* Cancel.  A URL is the record urlparse would return for its string, so   *)
(* two URLs are the same string exactly when their records are equal.      *)
(***************************************************************************)
EXTENDS Bags, Integers, Sequences, FiniteSets, TLC

\* ------------------------------------------------------------------ bounds
\* Resource worker threads that exist in the model (thread_count <= MaxThreads).
MaxThreads == 2
\* Largest max_depth the start command is given in depth-limited mode.
MaxDepth == 1

\* The rate interval of the paced runs, in clock ticks.
RateInterval == 2
\* The clock stops here.
MaxTime == 7

\* How many get_local_path calls are made when the path mapper is taken alone.
MaxCalls == 3

\* ------------------------------------------------------- program constants
\* depth_spin.setRange(1, 10): the smallest depth the form can send.
MinDepth == 1
\* max_depth sent by the form when the mode is not depth-limited.
AllPagesDepth == 999

\* --------------------------------------------------------------- URL model
MkUrl(s, n, p, q, f) ==
    [scheme |-> s, netloc |-> n, path |-> p, query |-> q, fragment |-> f]

\* The empty string as a URL.
EmptyUrl == MkUrl("", "", <<>>, "", "")

Host == "example.com"

\* str.lower() on the characters the model's paths are written with.
LowerChar(c) ==
    CASE c = "C" -> "c"
      [] c = "S" -> "s"
      [] c = "J" -> "j"
      [] c = "P" -> "p"
      [] c = "N" -> "n"
      [] c = "G" -> "g"
      [] OTHER -> c

Lower(p) == [i \in 1..Len(p) |-> LowerChar(p[i])]

\* str.endswith
EndsWith(p, e) ==
    /\ Len(e) <= Len(p)
    /\ SubSeq(p, Len(p) - Len(e) + 1, Len(p)) = e

\* The extension list of extract_resources (line 321).
ResourceExts ==
    { <<".", "c", "s", "s">>, <<".", "j", "s">>, <<".", "j", "p", "g">>,
      <<".", "j", "p", "e", "g">>, <<".", "p", "n", "g">>, <<".", "g", "i", "f">>,
      <<".", "b", "m", "p">>, <<".", "i", "c", "o">>, <<".", "s", "v", "g">>,
      <<".", "w", "o", "f", "f">>, <<".", "t", "t", "f">>, <<".", "e", "o", "t">> }

\* is_resource of extract_resources: the lower-cased path ends in a known extension.
IsResourcePath(p) == \E e \in ResourceExts : EndsWith(Lower(p), e)

\* The path up to and including its last "/" (urljoin drops the last segment).
RECURSIVE DirOf(_)
DirOf(p) ==
    IF p = <<>> THEN <<"/">>
    ELSE IF p[Len(p)] = "/" THEN p
    ELSE DirOf(SubSeq(p, 1, Len(p) - 1))

\* urllib.parse.urljoin(base, ref), for references without "." and ".." segments.
urljoin(base, ref) ==
    IF ref = EmptyUrl THEN base
    ELSE IF ref.scheme # "" /\ (ref.scheme # base.scheme \/ ref.scheme \notin {"http", "https"})
        THEN ref
    ELSE IF ref.netloc # "" THEN [ref EXCEPT !.scheme = base.scheme]
    ELSE IF ref.path = <<>>
        THEN [base EXCEPT !.query = IF ref.query = "" THEN base.query ELSE ref.query,
                          !.fragment = ref.fragment]
    ELSE IF ref.path[1] = "/"
        THEN MkUrl(base.scheme, base.netloc, ref.path, ref.query, ref.fragment)
    ELSE MkUrl(base.scheme, base.netloc, DirOf(base.path) \o ref.path, ref.query, ref.fragment)

get_absolute_url(base_url, relative_url) == urljoin(base_url, relative_url)

\* ------------------------------------------------------------- path mapper
\* Local paths are sequences too: "/" separates, every other element is one
\* character or one whole name.

\* The character a percent escape stands for, "" when the model's alphabet has
\* no such escape (urllib.parse.unquote leaves what it cannot decode).
Unescape(a, b) ==
    CASE a = "6" /\ b = "1" -> "a"
      [] a = "7" /\ b = "3" -> "s"
      [] a = "2" /\ b = "0" -> " "
      [] OTHER -> ""

\* urllib.parse.unquote: every escape is replaced by its character, the rest is
\* kept.
unquote(p) ==
    LET IsEscape(i) == /\ i >= 1 /\ i + 2 <= Len(p)
                       /\ p[i] = "%"
                       /\ Unescape(p[i + 1], p[i + 2]) # ""
        decoded == [i \in 1..Len(p) |->
                       IF IsEscape(i) THEN Unescape(p[i + 1], p[i + 2])
                       ELSE IF IsEscape(i - 1) \/ IsEscape(i - 2) THEN ""
                       ELSE p[i]]
    IN  SelectSeq(decoded, LAMBDA c : c # "")

IndexHtml == <<"index.html">>

\* os.path.join(a, b) on a POSIX build: an absolute b replaces a.
PathJoin(a, b) ==
    IF b # <<>> /\ b[1] = "/" THEN b
    ELSE IF a = <<>> \/ a[Len(a)] = "/" THEN a \o b
    ELSE a \o <<"/">> \o b

\* The elements of a set of numbers in ascending order.
Ascending(S) ==
    [j \in 1..Cardinality(S) |-> CHOOSE i \in S : Cardinality({k \in S : k <= i}) = j]

\* os.path.dirname, for paths without doubled separators.
dirname(p) ==
    LET slashes == {i \in 1..Len(p) : p[i] = "/"}
        last == CHOOSE i \in slashes : \A j \in slashes : j <= i
    IN  IF slashes = {} THEN <<>>
        ELSE IF last = 1 THEN <<"/">>
        ELSE SubSeq(p, 1, last - 1)

\* The save directory of a run: <cwd>/saved_websites/<initial domain> (line 402).
SaveDir(domain) == <<"/", "cwd", "/", "saved_websites", "/", domain>>

\* Variant of get_local_path that keeps the query in the file's name.
get_local_path_with_query(url, save_dir) ==
    LET path == unquote(url.path)
        named == IF path = <<>> \/ path = <<"/">> THEN <<"/">> \o IndexHtml
                 ELSE IF path[Len(path)] = "/" THEN path \o IndexHtml
                 ELSE path
        rel == IF named[1] = "/" THEN Tail(named) ELSE named
    IN  PathJoin(save_dir, IF url.query = "" THEN rel ELSE rel \o <<"?", url.query>>)

\* get_local_path, the path it returns (lines 178-192, 198).
get_local_path(url, save_dir) ==
    LET path == unquote(url.path)
        named == IF path = <<>> \/ path = <<"/">> THEN <<"/">> \o IndexHtml
                 ELSE IF path[Len(path)] = "/" THEN path \o IndexHtml
                 ELSE path
        rel == IF named[1] = "/" THEN Tail(named) ELSE named
    IN  PathJoin(save_dir, rel)

\* The directories os.makedirs(d) makes sure of: d and every directory above it.
DirsUpTo(d) ==
    {<<"/">>} \cup { SubSeq(d, 1, k) : k \in { i \in 1..Len(d) : i = Len(d) \/ d[i + 1] = "/" } }

\* The names between the separators of a path.
Segments(p) ==
    LET stops == {0, Len(p) + 1} \cup {i \in 1..Len(p) : p[i] = "/"}
        after(b) == CHOOSE n \in stops : n > b /\ \A m \in stops : m > b => n <= m
        starts == Ascending({b \in stops : b <= Len(p) /\ after(b) > b + 1})
    IN  [j \in DOMAIN starts |-> SubSeq(p, starts[j] + 1, after(starts[j]) - 1)]

\* How many leading names two lists of names share.
CommonLen(a, b) ==
    LET shared == {k \in 0..Len(a) : k <= Len(b) /\ \A i \in 1..k : a[i] = b[i]}
    IN  CHOOSE k \in shared : \A m \in shared : m <= k

\* Names joined by the separator, from the i-th on.
RECURSIVE JoinNames(_, _)
JoinNames(s, i) ==
    IF i > Len(s) THEN <<>>
    ELSE IF i = Len(s) THEN s[i]
    ELSE s[i] \o <<"/">> \o JoinNames(s, i + 1)

\* os.path.relpath(path, start) for absolute paths on a POSIX build.
relpath(path, start) ==
    LET ps == Segments(path)
        ss == Segments(start)
        c == CommonLen(ps, ss)
        ups == [i \in 1..(Len(ss) - c) |-> <<"..">>]
        names == ups \o SubSeq(ps, c + 1, Len(ps))
    IN  IF names = <<>> THEN <<".">> ELSE JoinNames(names, 1)

\* Variant of LocalRef that writes the absolute local path.
LocalRefAbsolute(absolute_url, page_url, save_dir) == get_local_path(absolute_url, save_dir)

\* The value extract_resources writes into a rewritten attribute (lines 307-309,
\* 340-342).
LocalRef(absolute_url, page_url, save_dir) ==
    relpath(get_local_path(absolute_url, save_dir),
            dirname(get_local_path(page_url, save_dir)))

\* ------------------------------------------------------------ the web site
\* Pages and resources of the mirrored site.
Seed == MkUrl("https", Host, <<"/">>, "", "")
UrlA == MkUrl("https", Host, <<"/", "a">>, "", "")
UrlB == MkUrl("https", Host, <<"/", "b">>, "", "")
UrlCss == MkUrl("https", Host, <<"/", "s", ".", "c", "s", "s">>, "", "")
UrlPng == MkUrl("https", Host, <<"/", "i", ".", "p", "n", "g">>, "", "")

\* References as they are written in the documents.
RefCssRel == MkUrl("", "", <<"s", ".", "c", "s", "s">>, "", "")
RefPngRel == MkUrl("", "", <<"i", ".", "p", "n", "g">>, "", "")
RefSubPng == MkUrl("https", "sub.example.com", <<"/", "i", ".", "p", "n", "g">>, "", "")
RefOther == MkUrl("https", "other.org", <<"/">>, "", "")
RefA == MkUrl("", "", <<"/", "a">>, "", "")
RefB == MkUrl("", "", <<"b">>, "", "")
RefRoot == MkUrl("", "", <<"/">>, "", "")
RefUpperCss == MkUrl("", "", <<"/", "x", ".", "C", "S", "S">>, "", "")
RefJs == MkUrl("javascript", "", <<"v">>, "", "")
RefMail == MkUrl("mailto", "", <<"m">>, "", "")

Ref(k, r) == [kind |-> k, ref |-> r]

\* A second site: its front page references a stylesheet and links to one page,
\* which references nothing.
E2eHost == "example.org"
E2eSeed == MkUrl("https", E2eHost, <<"/">>, "", "")
E2eA == MkUrl("https", E2eHost, <<"/", "a">>, "", "")
E2eCss == MkUrl("https", E2eHost, <<"/", "s", "t", "y", "l", "e", ".", "c", "s", "s">>, "", "")
RefStyle == MkUrl("", "", <<"s", "t", "y", "l", "e", ".", "c", "s", "s">>, "", "")

\* A third site: one image is referenced under two query strings and, from a page
\* in a subdirectory, with a fragment.
QHost == "example.net"
QSeed == MkUrl("https", QHost, <<"/">>, "", "")
QDir == MkUrl("https", QHost, <<"/", "d", "/">>, "", "")
QPng1 == MkUrl("https", QHost, <<"/", "p", ".", "p", "n", "g">>, "v=1", "")
QPng2 == MkUrl("https", QHost, <<"/", "p", ".", "p", "n", "g">>, "v=2", "")
QPngF == MkUrl("https", QHost, <<"/", "p", ".", "p", "n", "g">>, "", "f")
RefQ1 == MkUrl("", "", <<"p", ".", "p", "n", "g">>, "v=1", "")
RefQ2 == MkUrl("", "", <<"p", ".", "p", "n", "g">>, "v=2", "")
RefQ1Abs == MkUrl("", "", <<"/", "p", ".", "p", "n", "g">>, "v=1", "")
RefQF == MkUrl("", "", <<"/", "p", ".", "p", "n", "g">>, "", "f")
RefDir == MkUrl("", "", <<"d", "/">>, "", "")

\* A fourth site: its front page embeds a document in a frame and links to it
\* as well, and links to a page that embeds the front page and links to the
\* framed document again.
MHost == "example.edu"
MSeed == MkUrl("https", MHost, <<"/">>, "", "")
MFrame == MkUrl("https", MHost, <<"/", "w">>, "", "")
MPage == MkUrl("https", MHost, <<"/", "v">>, "", "")
RefW == MkUrl("", "", <<"w">>, "", "")
RefV == MkUrl("", "", <<"v">>, "", "")

\* What a successful GET returns on the second, third and fourth site.
DocMore(u) ==
    CASE u = E2eSeed ->
           [ctype |-> "text/html", refs |-> << Ref("tag", RefStyle), Ref("a", E2eA) >>]
      [] u = E2eA -> [ctype |-> "text/html", refs |-> <<>>]
      [] u = E2eCss -> [ctype |-> "text/css", refs |-> <<>>]
      [] u = QSeed ->
           [ctype |-> "text/html",
            refs |-> << Ref("tag", RefQ1), Ref("tag", RefQ2), Ref("a", RefDir) >>]
      [] u = QDir ->
           [ctype |-> "text/html", refs |-> << Ref("tag", RefQ1Abs), Ref("tag", RefQF) >>]
      [] u = MSeed ->
           [ctype |-> "text/html",
            refs |-> << Ref("tag", RefW), Ref("a", RefW), Ref("a", RefV) >>]
      [] u = MPage ->
           [ctype |-> "text/html", refs |-> << Ref("tag", RefRoot), Ref("a", RefW) >>]
      [] u = MFrame -> [ctype |-> "text/html", refs |-> <<>>]
      [] OTHER -> [ctype |-> "image/png", refs |-> <<>>]

\* What a successful GET of a URL returns: the content type and, for a page, the
\* references in the order extract_resources scans them (CSS url(), then the
\* resource tags, then the anchors).
Doc(u) ==
    CASE u = Seed ->
           [ctype |-> "text/html",
            refs |-> << Ref("css", RefPngRel), Ref("tag", RefCssRel), Ref("tag", RefSubPng),
                        Ref("a", RefA), Ref("a", RefJs), Ref("a", RefUpperCss) >>]
      [] u = UrlA ->
           [ctype |-> "text/html",
            refs |-> << Ref("tag", RefCssRel), Ref("tag", EmptyUrl), Ref("a", RefRoot),
                        Ref("a", RefB), Ref("a", RefMail), Ref("a", RefOther) >>]
      [] u = UrlB -> [ctype |-> "application/pdf", refs |-> <<>>]
      [] u = UrlCss -> [ctype |-> "text/css", refs |-> <<>>]
      [] OTHER -> DocMore(u)

\* Every absolute URL a reference of the site can resolve to.
SiteUrls ==
    {Seed, UrlA, UrlB, UrlCss, UrlPng, E2eSeed, E2eA, E2eCss, QSeed, QDir, QPng1, QPng2, QPngF,
     MSeed, MFrame, MPage}

AllUrls ==
    SiteUrls \cup UNION { { urljoin(u, Doc(u).refs[i].ref) : i \in DOMAIN Doc(u).refs } :
                            u \in SiteUrls }

\* get_absolute_url of every reference of every document, tabulated.
AbsoluteUrls ==
    [u \in AllUrls |-> [i \in DOMAIN Doc(u).refs |-> get_absolute_url(u, Doc(u).refs[i].ref)]]

\* The initial domains a run can have.
SiteHosts == {u.netloc : u \in SiteUrls}

\* get_local_path of every URL of the site under every save directory, tabulated.
LocalPaths ==
    [h \in SiteHosts |-> [u \in AllUrls |-> get_local_path(u, SaveDir(h))]]

\* The rewritten value of every reference on every page, tabulated.
LocalRefs ==
    [h \in SiteHosts |-> [p \in AllUrls |-> [a \in AllUrls |-> LocalRef(a, p, SaveDir(h))]]]

\* The directories get_local_path makes sure of for every URL, tabulated.
MadeDirs ==
    [h \in SiteHosts |-> [u \in AllUrls |-> DirsUpTo(dirname(LocalPaths[h][u]))]]


Modes == {"current_page", "depth_limited", "all_pages"}

\* --------------------------------------------------------------- the state
PageW == 0
ResWs == 1..MaxThreads
Workers == {PageW} \cup ResWs

NoTask == [url |-> EmptyUrl, domain |-> "", depth |-> 0]

VARIABLES
    faults,                 \* whether requests and writes can fail in this environment
    thread,                 \* DownloadThread: url, download_mode, max_depth, delay_ms,
                            \*   thread_count, is_cancelled
    orch,                   \* where DownloadThread.run / save_website stands
    arg_cancelled,          \* the is_cancelled argument save_website was called with
    visited_urls, downloaded_resources, initial_domain,
    page_queue, resource_queue,
    page_unfinished, resource_unfinished,   \* Queue.unfinished_tasks of the two queues
    is_cancelled, total_files, downloaded_files,
    max_depth, delay_ms, last_request_time,
    wpc, wtask, widx, wmode,                \* the workers: position, task, scan index, mode
    delay_lock, wstart, now,                \* the limiter: its lock, wake times, the clock
    enqueued,               \* history: every put on a queue, in order
    popped, done_calls,     \* history: get / task_done calls per task URL
    requests,               \* history: HTTP requests issued per URL
    file_added,             \* history: file_added_signal emissions per URL
    errors,                 \* history: URLs whose failure was logged or sent as progress text
    skipped,                \* history: URLs of the tasks whose flag test ran with the flag set
    departures,             \* history: the rate limiter's two latest stamps, in order
    finished_signal,        \* history: finished_signal emissions (the success flag)
    file_count_signal,      \* history: file_count_signal emissions, their number and the
                            \*   latest value sent
    fetch_failed,           \* history: page URLs whose GET failed
    soup,                   \* the page worker's parsed document: its attributes, as rewritten
    files, dirs,            \* the disk: the files written and the directories made
    wread,                  \* per worker, the value of downloaded_files it last loaded
    run,                    \* how many runs the engine has been started for
    old_wpc, old_wtask,     \* the previous run's worker threads: position and task
    calls                   \* history: get_local_path calls made on their own

config == <<faults, thread, max_depth, delay_ms, initial_domain>>
sets == <<visited_urls, downloaded_resources>>
queues == <<page_queue, resource_queue, page_unfinished, resource_unfinished>>
counters == <<total_files, downloaded_files>>
workers == <<wpc, wtask, widx, wmode>>
limiter == <<last_request_time, delay_lock, wstart, now, departures>>
history == <<enqueued, popped, done_calls, requests, file_added, errors, skipped>>
disk == <<soup, files, dirs>>
apart == <<wread, run, old_wpc, old_wtask, calls>>

vars == <<faults, thread, orch, arg_cancelled, visited_urls, downloaded_resources, initial_domain,
          page_queue, resource_queue, page_unfinished, resource_unfinished,
          is_cancelled, total_files, downloaded_files, max_depth, delay_ms,
          last_request_time, wpc, wtask, widx, wmode, delay_lock, wstart, now,
          enqueued, popped, done_calls, requests, file_added, errors, skipped,
          departures, finished_signal, file_count_signal, fetch_failed, soup, files, dirs, wread, run,
          old_wpc, old_wtask, calls>>

\* The history counters are bags of URLs: how often each URL was popped, marked
\* done, requested and announced as saved.
ZeroCount == EmptyBag

\* WebsiteSaver.__init__ and DownloadThread.__init__ for a start command p.
InitWith(p) ==
    /\ faults = p.faults
    /\ thread = [url |-> p.url, download_mode |-> p.mode, max_depth |-> p.depth,
                 delay_ms |-> p.delay, thread_count |-> p.threads, is_cancelled |-> FALSE]
    /\ orch = "start"
    /\ arg_cancelled = FALSE
    /\ visited_urls = {}
    /\ downloaded_resources = {}
    /\ initial_domain = ""
    /\ page_queue = <<>>
    /\ resource_queue = <<>>
    /\ page_unfinished = 0
    /\ resource_unfinished = 0
    /\ is_cancelled = FALSE
    /\ total_files = 0
    /\ downloaded_files = 0
    /\ max_depth = 0
    /\ delay_ms = 0
    /\ last_request_time = 0
    /\ wpc = [w \in Workers |-> "unstarted"]
    /\ wtask = [w \in Workers |-> NoTask]
    /\ widx = 0
    /\ wmode = ""
    /\ delay_lock = -1
    /\ wstart = [w \in Workers |-> 0]
    /\ now = 1
    /\ enqueued = <<>>
    /\ popped = ZeroCount
    /\ done_calls = ZeroCount
    /\ requests = ZeroCount
    /\ file_added = ZeroCount
    /\ errors = {}
    /\ skipped = {}
    /\ departures = <<>>
    /\ finished_signal = <<>>
    /\ file_count_signal = [emitted |-> 0, last |-> 0]
    /\ fetch_failed = {}
    /\ soup = <<>>
    /\ files = {}
    /\ dirs = DirsUpTo(<<"/", "cwd">>)
    /\ wread = [w \in Workers |-> 0]
    /\ run = 1
    /\ old_wpc = [w \in Workers |-> "unstarted"]
    /\ old_wtask = [w \in Workers |-> NoTask]
    /\ calls = <<>>

\* The start commands of start_download: the depth is the spin box's value in
\* depth-limited mode and 999 otherwise.
StartCommands ==
    { [url |-> Seed, mode |-> m, depth |-> d, delay |-> 0, threads |-> t, faults |-> TRUE] :
        m \in Modes, d \in (MinDepth..MaxDepth) \cup {AllPagesDepth}, t \in 1..MaxThreads }

ValidCommand(p) == (p.mode = "depth_limited") <=> (p.depth # AllPagesDepth)

Init == \E p \in StartCommands : ValidCommand(p) /\ InitWith(p)

\* ------------------------------------------------------------ scope filter
\* Variant of is_valid_url that forgets to compare the authority with the run's
\* domain.
is_valid_url_any_host(url, current_domain) ==
    IF url = EmptyUrl \/ url.scheme = "javascript" \/ url.scheme = "mailto"
        THEN FALSE
        ELSE url.netloc # ""

\* is_valid_url: the current_domain argument is not used, the run's initial
\* domain decides.
is_valid_url(url, current_domain) ==
    IF url = EmptyUrl \/ url.scheme = "javascript" \/ url.scheme = "mailto"
        THEN FALSE
        ELSE url.netloc # "" /\ url.netloc = initial_domain

\* ---------------------------------------------------------------- extractor
\* Variant of FollowsLinks with the depth test off by one.
FollowsLinksOffByOne(mode, depth) ==
    mode # "current_page" /\ (mode = "all_pages" \/ depth <= max_depth)

\* The guard of the anchor pass (line 313).
FollowsLinks(mode, depth) ==
    mode # "current_page" /\ (mode = "all_pages" \/ depth < max_depth)

\* Variant of ClaimsResource without the membership test.
ClaimsResourceNoDedup(abs, dom) == is_valid_url(abs, dom)

\* The test that lets a resource reference be claimed (lines 282-284, 298-300).
ClaimsResource(abs, dom) ==
    is_valid_url(abs, dom) /\ abs \notin downloaded_resources

\* Variant of ClaimsPage that takes a link to a resource for a page.
ClaimsPageAnyPath(abs, dom) ==
    /\ is_valid_url(abs, dom)
    /\ abs \notin visited_urls
    /\ abs \notin downloaded_resources

\* Variant of ClaimsPage that looks the target up among the pages only.
ClaimsPageUnvisited(abs, dom) ==
    /\ is_valid_url(abs, dom)
    /\ abs \notin visited_urls
    /\ ~IsResourcePath(abs.path)

\* The test that lets an anchor's target be claimed as a page (lines 323-329).
ClaimsPage(abs, dom) ==
    /\ is_valid_url(abs, dom)
    /\ abs \notin visited_urls
    /\ abs \notin downloaded_resources
    /\ ~IsResourcePath(abs.path)

\* Variant of ExtractsResources that extracts in every mode.
ExtractsAlways(mode) == TRUE

\* download_page's choice between saving the page as fetched and extracting (line 491).
ExtractsResources(mode) == mode # "current_page"

\* Variant of SeedTask that starts the count of hops at 1.
SeedTaskAtOne(url) == [url |-> url, domain |-> url.netloc, depth |-> 1]

\* The task save_website puts for the start URL (line 425).
SeedTask(url) == [url |-> url, domain |-> url.netloc, depth |-> 0]

\* Variant of PutResource that puts the item twice.
PutResourceTwice(abs) ==
    /\ resource_queue' = Append(Append(resource_queue, abs), abs)
    /\ resource_unfinished' = resource_unfinished + 2
    /\ enqueued' = Append(Append(enqueued, [url |-> abs, queue |-> "resource", depth |-> 0]),
                          [url |-> abs, queue |-> "resource", depth |-> 0])

\* Queue.put: the item joins the queue and counts as unfinished.
PutResource(abs) ==
    /\ resource_queue' = Append(resource_queue, abs)
    /\ resource_unfinished' = resource_unfinished + 1
    /\ enqueued' = Append(enqueued, [url |-> abs, queue |-> "resource", depth |-> 0])

\* Variant of PutPage that does not count the item as unfinished.
PutPageUncounted(abs, dom, depth) ==
    /\ page_queue' = Append(page_queue, [url |-> abs, domain |-> dom, depth |-> depth])
    /\ page_unfinished' = page_unfinished
    /\ enqueued' = Append(enqueued, [url |-> abs, queue |-> "page", depth |-> depth])

\* Variant of PutPage that gives the new task the depth of the page it was found on.
PutPageAtSameDepth(abs, dom, depth) ==
    /\ page_queue' = Append(page_queue, [url |-> abs, domain |-> dom, depth |-> depth - 1])
    /\ page_unfinished' = page_unfinished + 1
    /\ enqueued' = Append(enqueued, [url |-> abs, queue |-> "page", depth |-> depth - 1])

\* Queue.put on the page queue (line 335).
PutPage(abs, dom, depth) ==
    /\ page_queue' = Append(page_queue, [url |-> abs, domain |-> dom, depth |-> depth])
    /\ page_unfinished' = page_unfinished + 1
    /\ enqueued' = Append(enqueued, [url |-> abs, queue |-> "page", depth |-> depth])

\* Variant of TaskDone that leaves the count as it is.
TaskDoneForgotten(n) == n

\* Queue.task_done on a queue with n unfinished tasks.
TaskDone(n) == n - 1

\* Variant of Joinable that returns with one task still unfinished.
JoinableEarly(n) == n <= 1

\* Queue.join returns when the queue has no unfinished task.
Joinable(n) == n = 0

\* Variant of SeesCancelled that never looks at the flag.
SeesCancelledNever == FALSE

\* The flag test that opens download_file (line 204) and download_page (line 466).
SeesCancelled == is_cancelled

\* ------------------------------------------------------------------- disk
\* BeautifulSoup's parse of a fetched document: every attribute as served.
Parse(doc) ==
    [i \in DOMAIN doc.refs |-> [ref |-> doc.refs[i].ref, rewritten |-> FALSE, value |-> <<>>]]

\* element[attr] = relative_path (lines 310, 343).
Rewrite(sp, i, v) == [sp EXCEPT ![i] = [ref |-> sp[i].ref, rewritten |-> TRUE, value |-> v]]

\* open(filepath, 'w') and write: the file replaces what was at its path.
WriteFile(path, url, doc) ==
    {f \in files : f.path # path} \cup {[path |-> path, url |-> url, doc |-> doc]}

\* A regular file is at this path.
IsFile(path) == \E f \in files : f.path = path

\* Variant of MakeDirsRaises for os.makedirs without exist_ok: a directory that
\* is already there raises too.
MakeDirsRaisesIfThere(d) == d \in dirs \/ \E a \in DirsUpTo(d) : IsFile(a)

\* os.makedirs(d, exist_ok=True) raises when a regular file is where it needs a
\* directory, and not when the directories are there already (line 196).
MakeDirsRaises(d) == \E a \in DirsUpTo(d) : IsFile(a)

\* The directories get_local_path makes for a URL (lines 195-196).
MadeFor(url) == MadeDirs[initial_domain][url]

\* ------------------------------------------------------------- orchestrator
\* DownloadThread.run evaluates the arguments of save_website (lines 81-92).
CallSave ==
    /\ orch = "start"
    /\ arg_cancelled' = thread.is_cancelled
    /\ orch' = "reset"
    /\ UNCHANGED <<config, sets, queues, is_cancelled, counters, workers, limiter,
                   history, finished_signal, file_count_signal,
                   fetch_failed, disk, apart>>

\* Variant of ResetAndSeed whose reset_state keeps last_request_time.
ResetAndSeedKeepsStamp ==
    /\ orch = "reset"
    /\ is_cancelled' = arg_cancelled
    /\ max_depth' = thread.max_depth
    /\ delay_ms' = thread.delay_ms
    /\ initial_domain' = thread.url.netloc
    /\ total_files' = 1
    /\ file_count_signal' = [emitted |-> file_count_signal.emitted + 1, last |-> 1]
    /\ downloaded_files' = 0
    /\ resource_queue' = <<>>
    /\ resource_unfinished' = 0
    /\ page_queue' = <<SeedTask(thread.url)>>
    /\ page_unfinished' = 1
    /\ visited_urls' = {thread.url}
    /\ downloaded_resources' = {thread.url}
    /\ enqueued' = Append(enqueued, [url |-> thread.url, queue |-> "page",
                                     depth |-> SeedTask(thread.url).depth])
    /\ dirs' = dirs \cup DirsUpTo(SaveDir(thread.url.netloc))
    /\ old_wpc' = [w \in Workers |-> IF wpc[w] = "get" THEN "get_old" ELSE wpc[w]]
    /\ wpc' = [w \in Workers |-> "unstarted"]
    /\ orch' = "spawn"
    /\ UNCHANGED <<faults, thread, arg_cancelled, wtask, widx, wmode, limiter,
                   popped, done_calls, requests, file_added, errors, skipped,
                   finished_signal, fetch_failed, soup, files, wread, run, old_wtask, calls>>

\* save_website up to the seeding (lines 392-427): reset_state, the run's
\* parameters, the estimate and the seed task.  Threads of an earlier run that
\* are still alive are the previous run's threads from here on; one that is
\* blocked in get() waits on the queue object that reset_state has just replaced.
ResetAndSeed ==
    /\ orch = "reset"
    /\ is_cancelled' = arg_cancelled
    /\ max_depth' = thread.max_depth
    /\ delay_ms' = thread.delay_ms
    /\ initial_domain' = thread.url.netloc
    /\ total_files' = 1
    /\ file_count_signal' = [emitted |-> file_count_signal.emitted + 1, last |-> 1]
    /\ downloaded_files' = 0
    /\ last_request_time' = 0
    /\ resource_queue' = <<>>
    /\ resource_unfinished' = 0
    /\ page_queue' = <<SeedTask(thread.url)>>
    /\ page_unfinished' = 1
    /\ visited_urls' = {thread.url}
    /\ downloaded_resources' = {thread.url}
    /\ enqueued' = Append(enqueued, [url |-> thread.url, queue |-> "page",
                                     depth |-> SeedTask(thread.url).depth])
    /\ dirs' = dirs \cup DirsUpTo(SaveDir(thread.url.netloc))
    /\ old_wpc' = [w \in Workers |-> IF wpc[w] = "get" THEN "get_old" ELSE wpc[w]]
    /\ wpc' = [w \in Workers |-> "unstarted"]
    /\ orch' = "spawn"
    /\ UNCHANGED <<faults, thread, arg_cancelled, wtask, widx, wmode, delay_lock, wstart, now, departures,
                   popped, done_calls, requests, file_added, errors, skipped,
                   finished_signal,
                   fetch_failed, soup, files, wread, run, old_wtask, calls>>

\* save_website starts the page thread and thread_count resource threads (lines 429-447).
Spawn ==
    /\ orch = "spawn"
    /\ wpc' = [w \in Workers |->
                 IF w = PageW \/ w <= thread.thread_count THEN "loop" ELSE wpc[w]]
    /\ wmode' = thread.download_mode
    /\ orch' = "join_page"
    /\ UNCHANGED <<config, arg_cancelled, sets, queues, is_cancelled, counters, wtask, widx,
                   limiter, history, finished_signal, file_count_signal,
                   fetch_failed, disk, apart>>

\* page_queue.join() (line 450).
JoinPage ==
    /\ orch = "join_page"
    /\ Joinable(page_unfinished)
    /\ orch' = "join_resource"
    /\ UNCHANGED <<config, arg_cancelled, sets, queues, is_cancelled, counters, workers,
                   limiter, history, finished_signal, file_count_signal,
                   fetch_failed, disk, apart>>

\* resource_queue.join() and the final progress (lines 451-458).
JoinResource ==
    /\ orch = "join_resource"
    /\ Joinable(resource_unfinished)
    /\ orch' = "returned"
    /\ UNCHANGED <<config, arg_cancelled, sets, queues, is_cancelled, counters, workers,
                   limiter, history, finished_signal, file_count_signal,
                   fetch_failed, disk, apart>>

\* Variant of Finish that reads the engine's flag instead of the thread's.
FinishByEngineFlag ==
    /\ orch = "returned"
    /\ finished_signal' = Append(finished_signal, ~is_cancelled)
    /\ orch' = "finished"
    /\ UNCHANGED <<config, arg_cancelled, sets, queues, is_cancelled, counters, workers,
                   limiter, history, file_count_signal,
                   fetch_failed, disk, apart>>

\* DownloadThread.run after save_website returned (lines 93-96).
Finish ==
    /\ orch = "returned"
    /\ finished_signal' = Append(finished_signal, ~thread.is_cancelled)
    /\ orch' = "finished"
    /\ UNCHANGED <<config, arg_cancelled, sets, queues, is_cancelled, counters, workers,
                   limiter, history, file_count_signal,
                   fetch_failed, disk, apart>>

\* The user interface's cancel_download -> DownloadThread.cancel ->
\* WebsiteSaver.cancel_download, possible while the thread is running.
Cancel ==
    /\ orch # "finished"
    /\ ~(thread.is_cancelled /\ is_cancelled)
    /\ thread' = [thread EXCEPT !.is_cancelled = TRUE]
    /\ is_cancelled' = TRUE
    /\ UNCHANGED <<faults, orch, arg_cancelled, max_depth, delay_ms, initial_domain, sets, queues,
                   counters, workers, limiter, history, finished_signal, file_count_signal,
                   fetch_failed, disk, apart>>

\* ----------------------------------------------------------------- workers
\* One more occurrence of u in a history counter.
Bump(f, u) == f (+) SetToBag({u})

\* How a request, a directory creation or a write can end: TRUE for success.
Outcomes == IF faults THEN BOOLEAN ELSE {TRUE}

\* The loop test of both worker functions: while not self.is_cancelled.
WorkerLoop(w) ==
    /\ wpc[w] = "loop"
    /\ wpc' = [wpc EXCEPT ![w] = IF is_cancelled THEN "exited" ELSE "get"]
    /\ UNCHANGED <<faults, thread, orch, arg_cancelled, max_depth, delay_ms, initial_domain, sets,
                   queues, is_cancelled, counters, wtask, widx, wmode, limiter, history,
                   finished_signal, file_count_signal,
                   fetch_failed, disk, apart>>

\* Queue.task_done by worker w for the task it holds, and back to the loop test
\* (lines 355, 364, 374, 383).
MarkDone(w) ==
    /\ IF w = PageW
         THEN /\ page_unfinished' = TaskDone(page_unfinished)
              /\ UNCHANGED resource_unfinished
         ELSE /\ resource_unfinished' = TaskDone(resource_unfinished)
              /\ UNCHANGED page_unfinished
    /\ done_calls' = Bump(done_calls, wtask[w].url)
    /\ wtask' = [wtask EXCEPT ![w] = NoTask]
    /\ wpc' = [wpc EXCEPT ![w] = "loop"]

\* The flag test at the top of download_page / download_file (lines 204, 466): a
\* cancelled run returns at once and the worker marks the task done.  Otherwise
\* apply_delay's own first test follows: with no delay configured the request is
\* issued at once.
WorkerCheck(w) ==
    /\ wpc[w] = "check"
    /\ skipped' = IF is_cancelled THEN skipped \cup {wtask[w].url} ELSE skipped
    /\ IF SeesCancelled
         THEN /\ MarkDone(w)
              /\ UNCHANGED requests
         ELSE /\ wpc' = [wpc EXCEPT ![w] = IF delay_ms <= 0 THEN "fetch" ELSE "delay"]
              /\ requests' = IF delay_ms <= 0 THEN Bump(requests, wtask[w].url) ELSE requests
              /\ UNCHANGED <<wtask, page_unfinished, resource_unfinished, done_calls>>
    /\ UNCHANGED <<faults, thread, orch, arg_cancelled, max_depth, delay_ms, initial_domain, sets,
                   page_queue, resource_queue, is_cancelled, counters, widx, wmode, limiter,
                   enqueued, popped, file_added, errors, finished_signal, file_count_signal,
                   fetch_failed, disk, apart>>

\* page_downloader: page_queue.get returns a task (line 371).
PageGet ==
    /\ wpc[PageW] = "get"
    /\ page_queue # <<>>
    /\ wtask' = [wtask EXCEPT ![PageW] = Head(page_queue)]
    /\ page_queue' = Tail(page_queue)
    /\ popped' = Bump(popped, Head(page_queue).url)
    /\ wpc' = [wpc EXCEPT ![PageW] = "check"]
    /\ UNCHANGED <<faults, thread, orch, arg_cancelled, max_depth, delay_ms, initial_domain, sets,
                   resource_queue, page_unfinished, resource_unfinished, is_cancelled,
                   counters, widx, wmode, limiter, enqueued, done_calls, requests,
                   file_added, errors, skipped, finished_signal, file_count_signal,
                   fetch_failed, disk, apart>>

\* page_downloader: the get timed out on an empty page queue (lines 375-379).
PageEmpty ==
    /\ wpc[PageW] = "get"
    /\ page_queue = <<>>
    /\ wpc' = [wpc EXCEPT ![PageW] =
                 IF page_queue = <<>> /\ resource_queue = <<>> THEN "exited" ELSE "loop"]
    /\ UNCHANGED <<faults, thread, orch, arg_cancelled, max_depth, delay_ms, initial_domain, sets,
                   queues, is_cancelled, counters, wtask, widx, wmode, limiter, history,
                   finished_signal, file_count_signal,
                   fetch_failed, disk, apart>>

\* download_page: the GET fails (timeout, DNS, status): logged (lines 548-550), and
\* page_downloader marks the task done (line 374).
PageFetchFail ==
    /\ wpc[PageW] = "fetch"
    /\ FALSE \in Outcomes
    /\ errors' = errors \cup {wtask[PageW].url}
    /\ fetch_failed' = fetch_failed \cup {wtask[PageW].url}
    /\ MarkDone(PageW)
    /\ UNCHANGED <<faults, thread, orch, arg_cancelled, max_depth, delay_ms, initial_domain, sets,
                   page_queue, resource_queue, is_cancelled, counters, widx, wmode, limiter,
                   enqueued, popped, requests, file_added, skipped, finished_signal, file_count_signal,
                   disk, apart>>

\* download_page: the GET succeeds; an HTML page goes to extract_resources unless
\* the mode is current_page (lines 473-501).
PageFetchOk ==
    /\ wpc[PageW] = "fetch"
    /\ LET doc == Doc(wtask[PageW].url)
       IN  IF doc.ctype = "text/html" /\ ExtractsResources(wmode) /\ doc.refs # <<>>
             THEN /\ wpc' = [wpc EXCEPT ![PageW] = "extract"]
                  /\ widx' = 1
             ELSE /\ wpc' = [wpc EXCEPT ![PageW] = "save"]
                  /\ widx' = 0
    /\ soup' = Parse(Doc(wtask[PageW].url))
    /\ UNCHANGED <<faults, thread, orch, arg_cancelled, max_depth, delay_ms, initial_domain, sets,
                   queues, is_cancelled, counters, wtask, wmode, limiter, history,
                   finished_signal, file_count_signal,
                   fetch_failed, files, dirs, apart>>

\* extract_resources, one reference: resolve, test, and under self.lock test again,
\* claim and enqueue (lines 278-343).  The sets only grow during a run, so the
\* unlocked test followed by the locked one decides as the locked one alone.
PageExtract ==
    /\ wpc[PageW] = "extract"
    /\ LET t == wtask[PageW]
           r == Doc(t.url).refs[widx]
           abs == AbsoluteUrls[t.url][widx]
           local == LocalRefs[initial_domain][t.url][abs]
       IN  /\ IF r.kind \in {"css", "tag"} /\ ClaimsResource(abs, t.domain)
                THEN /\ downloaded_resources' = downloaded_resources \cup {abs}
                     /\ PutResource(abs)
                     /\ total_files' = total_files + 1
                     /\ file_count_signal' = [emitted |-> file_count_signal.emitted + 1,
                                               last |-> total_files + 1]
                     /\ IF r.kind = "tag"
                          THEN /\ soup' = Rewrite(soup, widx, local)
                               /\ dirs' = dirs \cup MadeFor(abs) \cup MadeFor(t.url)
                          ELSE UNCHANGED <<soup, dirs>>
                     /\ UNCHANGED <<visited_urls, page_queue, page_unfinished>>
                ELSE IF r.kind = "a" /\ FollowsLinks(wmode, t.depth) /\ ClaimsPage(abs, t.domain)
                THEN /\ visited_urls' = visited_urls \cup {abs}
                     /\ downloaded_resources' = downloaded_resources \cup {abs}
                     /\ PutPage(abs, abs.netloc, t.depth + 1)
                     /\ total_files' = total_files + 1
                     /\ file_count_signal' = [emitted |-> file_count_signal.emitted + 1,
                                               last |-> total_files + 1]
                     /\ soup' = Rewrite(soup, widx, local)
                     /\ dirs' = dirs \cup MadeFor(abs) \cup MadeFor(t.url)
                     /\ UNCHANGED <<resource_queue, resource_unfinished>>
                ELSE UNCHANGED <<sets, queues, total_files, file_count_signal, enqueued, soup, dirs>>
           /\ wpc' = [wpc EXCEPT ![PageW] =
                        IF widx = Len(Doc(t.url).refs) THEN "save" ELSE "extract"]
           /\ widx' = widx + 1
    /\ UNCHANGED <<faults, thread, orch, arg_cancelled, max_depth, delay_ms, initial_domain,
                   is_cancelled, downloaded_files, wtask, wmode, limiter, popped, done_calls,
                   requests, file_added, errors, skipped, finished_signal,
                   fetch_failed, files, apart>>

\* download_page writes the file, counts it and emits progress and file_added
\* (lines 493-546); a write that fails is logged (lines 548-550).  Either way
\* page_downloader then marks the task done (line 374).
PageSave ==
    /\ wpc[PageW] = "save"
    /\ \E written \in Outcomes :
         IF written
           THEN /\ files' = WriteFile(LocalPaths[initial_domain][wtask[PageW].url],
                                       wtask[PageW].url, soup)
                /\ downloaded_files' = downloaded_files + 1
                /\ file_added' = Bump(file_added, wtask[PageW].url)
                /\ UNCHANGED errors
           ELSE /\ errors' = errors \cup {wtask[PageW].url}
                /\ UNCHANGED <<files, downloaded_files, file_added>>
    /\ dirs' = dirs \cup MadeFor(wtask[PageW].url)
    /\ MarkDone(PageW)
    /\ UNCHANGED <<faults, thread, orch, arg_cancelled, max_depth, delay_ms, initial_domain, sets,
                   page_queue, resource_queue, is_cancelled, total_files, widx, wmode,
                   limiter, enqueued, popped, requests, skipped, finished_signal, file_count_signal,
                   fetch_failed, soup, apart>>

\* resource_downloader: resource_queue.get returns a URL and get_local_path makes
\* its directories (lines 351-352); if that raises, the handler of lines 361-364
\* logs and marks the task done.
ResGet(w) ==
    /\ wpc[w] = "get"
    /\ resource_queue # <<>>
    /\ resource_queue' = Tail(resource_queue)
    /\ popped' = Bump(popped, Head(resource_queue))
    /\ \E made \in Outcomes :
         IF made
           THEN /\ wtask' = [wtask EXCEPT ![w] =
                               [url |-> Head(resource_queue), domain |-> "", depth |-> 0]]
                /\ wpc' = [wpc EXCEPT ![w] = "check"]
                /\ dirs' = dirs \cup MadeFor(Head(resource_queue))
                /\ UNCHANGED <<errors, resource_unfinished, done_calls>>
           ELSE /\ errors' = errors \cup {Head(resource_queue)}
                /\ resource_unfinished' = TaskDone(resource_unfinished)
                /\ done_calls' = Bump(done_calls, Head(resource_queue))
                /\ wpc' = [wpc EXCEPT ![w] = "loop"]
                /\ UNCHANGED <<wtask, dirs>>
    /\ UNCHANGED <<faults, thread, orch, arg_cancelled, max_depth, delay_ms, initial_domain, sets,
                   page_queue, page_unfinished, is_cancelled, counters, widx, wmode, limiter,
                   enqueued, requests, file_added, skipped, finished_signal, file_count_signal,
                   fetch_failed, soup, files, apart>>

\* resource_downloader: the get timed out on an empty resource queue (lines 356-360).
ResEmpty(w) ==
    /\ wpc[w] = "get"
    /\ resource_queue = <<>>
    /\ wpc' = [wpc EXCEPT ![w] =
                 IF page_queue = <<>> /\ resource_queue = <<>> THEN "exited" ELSE "loop"]
    /\ UNCHANGED <<faults, thread, orch, arg_cancelled, max_depth, delay_ms, initial_domain, sets,
                   queues, is_cancelled, counters, wtask, widx, wmode, limiter, history,
                   finished_signal, file_count_signal,
                   fetch_failed, disk, apart>>

\* Variant of ResFetch that announces the file and counts it although the
\* download failed.
ResFetchAnnouncesFailure(w) ==
    /\ wpc[w] = "fetch"
    /\ \E ok \in Outcomes :
         IF ok
           THEN /\ files' = WriteFile(LocalPaths[initial_domain][wtask[w].url],
                                       wtask[w].url, <<>>)
                /\ downloaded_files' = downloaded_files + 1
                /\ file_added' = Bump(file_added, wtask[w].url)
                /\ UNCHANGED errors
           ELSE /\ errors' = errors \cup {wtask[w].url}
                /\ downloaded_files' = downloaded_files + 1
                /\ file_added' = Bump(file_added, wtask[w].url)
                /\ UNCHANGED files
    /\ MarkDone(w)
    /\ UNCHANGED <<faults, thread, orch, arg_cancelled, max_depth, delay_ms, initial_domain, sets,
                   page_queue, resource_queue, is_cancelled, total_files, widx, wmode,
                   limiter, enqueued, popped, requests, skipped, finished_signal, file_count_signal,
                   fetch_failed, soup, dirs, apart>>

\* download_file after the request was issued: the response is saved, counted and
\* announced (lines 211-251), or the failure is sent as progress text (252-255);
\* resource_downloader then marks the task done (line 355).
ResFetch(w) ==
    /\ wpc[w] = "fetch"
    /\ \E ok \in Outcomes :
         IF ok
           THEN /\ files' = WriteFile(LocalPaths[initial_domain][wtask[w].url],
                                       wtask[w].url, <<>>)
                /\ downloaded_files' = downloaded_files + 1
                /\ file_added' = Bump(file_added, wtask[w].url)
                /\ UNCHANGED errors
           ELSE /\ errors' = errors \cup {wtask[w].url}
                /\ UNCHANGED <<files, downloaded_files, file_added>>
    /\ MarkDone(w)
    /\ UNCHANGED <<faults, thread, orch, arg_cancelled, max_depth, delay_ms, initial_domain, sets,
                   page_queue, resource_queue, is_cancelled, total_files, widx, wmode,
                   limiter, enqueued, popped, requests, skipped, finished_signal, file_count_signal,
                   fetch_failed, soup, dirs, apart>>

\* ------------------------------------------------- the counter, step by step
\* self.downloaded_files += 1 is a load, an add and a store, and neither
\* download_page nor download_file holds self.lock around it (lines 243, 512,
\* 537).  The three actions below are PageSave and ResFetch with the load and the
\* store as separate steps.

\* download_page writes the file and loads the counter (lines 493-512).
PageSaveLoad ==
    /\ wpc[PageW] = "save"
    /\ \E written \in Outcomes :
         IF written
           THEN /\ files' = WriteFile(LocalPaths[initial_domain][wtask[PageW].url],
                                       wtask[PageW].url, soup)
                /\ wread' = [wread EXCEPT ![PageW] = downloaded_files]
                /\ wpc' = [wpc EXCEPT ![PageW] = "count"]
                /\ UNCHANGED <<errors, wtask, page_unfinished, resource_unfinished, done_calls>>
           ELSE /\ errors' = errors \cup {wtask[PageW].url}
                /\ MarkDone(PageW)
                /\ UNCHANGED <<files, wread>>
    /\ dirs' = dirs \cup MadeFor(wtask[PageW].url)
    /\ UNCHANGED <<faults, thread, orch, arg_cancelled, max_depth, delay_ms, initial_domain, sets,
                   page_queue, resource_queue, is_cancelled, counters, widx, wmode,
                   limiter, enqueued, popped, requests, file_added, skipped, finished_signal,
                   file_count_signal,
                   fetch_failed, soup, run, old_wpc, old_wtask, calls>>

\* download_file receives and writes the response and loads the counter (lines
\* 211-243), or sends the failure as progress text (252-255).
ResFetchLoad(w) ==
    /\ wpc[w] = "fetch"
    /\ \E ok \in Outcomes :
         IF ok
           THEN /\ files' = WriteFile(LocalPaths[initial_domain][wtask[w].url],
                                       wtask[w].url, <<>>)
                /\ wread' = [wread EXCEPT ![w] = downloaded_files]
                /\ wpc' = [wpc EXCEPT ![w] = "count"]
                /\ UNCHANGED <<errors, wtask, page_unfinished, resource_unfinished, done_calls>>
           ELSE /\ errors' = errors \cup {wtask[w].url}
                /\ MarkDone(w)
                /\ UNCHANGED <<files, wread>>
    /\ UNCHANGED <<faults, thread, orch, arg_cancelled, max_depth, delay_ms, initial_domain, sets,
                   page_queue, resource_queue, is_cancelled, counters, widx, wmode,
                   limiter, enqueued, popped, requests, file_added, skipped, finished_signal,
                   file_count_signal,
                   fetch_failed, soup, dirs, run, old_wpc, old_wtask, calls>>

\* Variant of CountStore that adds 2 to the value loaded.
CountStoreTwice(w) ==
    /\ wpc[w] = "count"
    /\ downloaded_files' = wread[w] + 2
    /\ file_added' = Bump(file_added, wtask[w].url)
    /\ MarkDone(w)
    /\ UNCHANGED <<faults, thread, orch, arg_cancelled, max_depth, delay_ms, initial_domain, sets,
                   page_queue, resource_queue, is_cancelled, total_files, widx, wmode,
                   limiter, enqueued, popped, requests, errors, skipped, finished_signal,
                   file_count_signal,
                   fetch_failed, disk, apart>>

\* The store of the incremented value, the progress and file_added emissions, and
\* the worker's task_done (lines 243-249 and 355, 512-518 and 374).
CountStore(w) ==
    /\ wpc[w] = "count"
    /\ downloaded_files' = wread[w] + 1
    /\ file_added' = Bump(file_added, wtask[w].url)
    /\ MarkDone(w)
    /\ UNCHANGED <<faults, thread, orch, arg_cancelled, max_depth, delay_ms, initial_domain, sets,
                   page_queue, resource_queue, is_cancelled, total_files, widx, wmode,
                   limiter, enqueued, popped, requests, errors, skipped, finished_signal,
                   file_count_signal,
                   fetch_failed, disk, apart>>

\* ------------------------------------------------------ the engine, reused
\* start_download for a second time, the download button having been enabled
\* again by download_finished: the lists of the window are cleared, a new
\* DownloadThread is made for the same WebsiteSaver and started (lines 942-997),
\* the delay spin box standing at one of delays.  The disk keeps what the first
\* run wrote.
RestartWith(delays) ==
    /\ orch = "finished"
    /\ run = 1
    /\ \E c \in {[url |-> Seed, mode |-> "current_page"],
                  [url |-> E2eSeed, mode |-> "depth_limited"]}, d \in delays :
         thread' = [url |-> c.url, download_mode |-> c.mode,
                    max_depth |-> IF c.mode = "depth_limited" THEN MinDepth ELSE AllPagesDepth,
                    delay_ms |-> d, thread_count |-> 1, is_cancelled |-> FALSE]
    /\ run' = run + 1
    /\ orch' = "start"
    /\ enqueued' = <<>>
    /\ popped' = ZeroCount
    /\ done_calls' = ZeroCount
    /\ requests' = ZeroCount
    /\ file_added' = ZeroCount
    /\ errors' = {}
    /\ skipped' = {}
    /\ fetch_failed' = {}
    /\ finished_signal' = <<>>
    /\ file_count_signal' = [emitted |-> 0, last |-> 0]
    /\ departures' = <<>>
    /\ UNCHANGED <<faults, arg_cancelled, max_depth, delay_ms, initial_domain, sets, queues,
                   is_cancelled, counters, workers, last_request_time, delay_lock, wstart,
                   now, disk, wread, old_wpc, old_wtask, calls>>

\* The second start with the delay spin box at 0.
Restart == RestartWith({0})

\* What no thread of the previous run changes.
OldFrame ==
    UNCHANGED <<faults, thread, orch, arg_cancelled, max_depth, delay_ms, initial_domain, sets,
                is_cancelled, total_files, workers, limiter, enqueued, skipped,
                finished_signal, file_count_signal, fetch_failed, soup, wread, run, calls>>

\* A thread of the previous run tests the flag at the top of its loop (lines 349,
\* 369) and goes to get() on what self.page_queue / self.resource_queue now is.
OldLoop(w) ==
    /\ old_wpc[w] = "loop"
    /\ old_wpc' = [old_wpc EXCEPT ![w] = IF is_cancelled THEN "exited" ELSE "get"]
    /\ OldFrame
    /\ UNCHANGED <<queues, downloaded_files, old_wtask, popped, done_calls, requests,
                   file_added, errors, files, dirs>>

\* Its get() times out, on the replaced queue or on an empty current one, and it
\* looks at the current queues (lines 356-360, 375-379).
OldEmpty(w) ==
    /\ \/ old_wpc[w] = "get_old"
       \/ old_wpc[w] = "get" /\ (IF w = PageW THEN page_queue ELSE resource_queue) = <<>>
    /\ old_wpc' = [old_wpc EXCEPT ![w] =
                     IF page_queue = <<>> /\ resource_queue = <<>> THEN "exited" ELSE "loop"]
    /\ OldFrame
    /\ UNCHANGED <<queues, downloaded_files, old_wtask, popped, done_calls, requests,
                   file_added, errors, files, dirs>>

\* Its get() returns a task of the current queue (lines 351-352, 371).
OldGet(w) ==
    /\ old_wpc[w] = "get"
    /\ IF w = PageW
         THEN /\ page_queue # <<>>
              /\ old_wtask' = [old_wtask EXCEPT ![w] = Head(page_queue)]
              /\ popped' = Bump(popped, Head(page_queue).url)
              /\ page_queue' = Tail(page_queue)
              /\ UNCHANGED <<resource_queue, dirs>>
         ELSE /\ resource_queue # <<>>
              /\ old_wtask' = [old_wtask EXCEPT ![w] =
                                  [url |-> Head(resource_queue), domain |-> "", depth |-> 0]]
              /\ popped' = Bump(popped, Head(resource_queue))
              /\ resource_queue' = Tail(resource_queue)
              /\ dirs' = dirs \cup MadeFor(Head(resource_queue))
              /\ UNCHANGED page_queue
    /\ old_wpc' = [old_wpc EXCEPT ![w] = "fetch"]
    /\ OldFrame
    /\ UNCHANGED <<page_unfinished, resource_unfinished, downloaded_files, done_calls,
                   requests, file_added, errors, files>>

\* download_page / download_file in a thread of the previous run, which was a
\* current-page run: the flag test, the request (at once with no delay
\* configured, otherwise after apply_delay let it through), the response saved
\* as it came, counted and announced, or the failure reported; then task_done on
\* the current queue (lines 200-255, 460-550, 355, 374).
OldProcess(w) ==
    /\ \/ old_wpc[w] = "fetch" /\ (SeesCancelled \/ delay_ms <= 0)
       \/ old_wpc[w] = "request"
    /\ LET u == old_wtask[w].url
       IN  \E ok \in Outcomes :
             IF old_wpc[w] = "fetch" /\ SeesCancelled
               THEN UNCHANGED <<requests, files, dirs, downloaded_files, file_added, errors>>
               ELSE /\ requests' = Bump(requests, u)
                    /\ IF ok
                         THEN /\ files' = WriteFile(LocalPaths[initial_domain][u],
                                                     u, Parse(Doc(u)))
                              /\ dirs' = dirs \cup MadeFor(u)
                              /\ downloaded_files' = downloaded_files + 1
                              /\ file_added' = Bump(file_added, u)
                              /\ UNCHANGED errors
                         ELSE /\ errors' = errors \cup {u}
                              /\ UNCHANGED <<files, dirs, downloaded_files, file_added>>
    /\ IF w = PageW
         THEN /\ page_unfinished' = TaskDone(page_unfinished)
              /\ UNCHANGED resource_unfinished
         ELSE /\ resource_unfinished' = TaskDone(resource_unfinished)
              /\ UNCHANGED page_unfinished
    /\ done_calls' = Bump(done_calls, old_wtask[w].url)
    /\ old_wtask' = [old_wtask EXCEPT ![w] = NoTask]
    /\ old_wpc' = [old_wpc EXCEPT ![w] = "loop"]
    /\ OldFrame
    /\ UNCHANGED <<page_queue, resource_queue, popped>>

\* The steps of the previous run's threads.
OldWorker(w) ==
    \/ OldLoop(w)
    \/ OldEmpty(w)
    \/ OldGet(w)
    \/ OldProcess(w)

\* ------------------------------------------------- the path mapper, alone
\* The URLs and the save directories the path mapper is called with.
MapperUrls ==
    { Seed, UrlA, QDir, QPng1,
      MkUrl("https", Host, <<"/", "%", "6", "1">>, "", ""),
      MkUrl("https", Host, <<"/", "a", "/", "x">>, "", "") }

MapperDirs == {SaveDir(Host), SaveDir(QHost)}

\* What nothing but the crawl changes.
MapperFrame ==
    UNCHANGED <<faults, thread, orch, arg_cancelled, max_depth, delay_ms, initial_domain, sets,
                queues, is_cancelled, counters, workers, limiter, history, finished_signal, file_count_signal,
                fetch_failed, soup, wread, run, old_wpc, old_wtask>>

\* One call of get_local_path(url, save_dir): the path is computed, the
\* directories above it are made, and the path is returned unless makedirs
\* raised (lines 178-198).
MapCall ==
    /\ Len(calls) < MaxCalls
    /\ \E u \in MapperUrls, d \in MapperDirs :
         LET path == get_local_path(u, d)
         IN  IF MakeDirsRaises(dirname(path))
               THEN /\ calls' = Append(calls, [url |-> u, dir |-> d, path |-> <<>>,
                                               raised |-> TRUE])
                    /\ UNCHANGED dirs
               ELSE /\ calls' = Append(calls, [url |-> u, dir |-> d, path |-> path,
                                               raised |-> FALSE])
                    /\ dirs' = dirs \cup DirsUpTo(dirname(path))
    /\ UNCHANGED files
    /\ MapperFrame

\* The caller opens the returned path for writing, as download_page and
\* download_file do (lines 229, 235, 494, 505); a directory cannot be opened.
MapSave ==
    /\ \E i \in DOMAIN calls :
         /\ ~calls[i].raised
         /\ calls[i].path \notin dirs
         /\ ~IsFile(calls[i].path)
         /\ files' = WriteFile(calls[i].path, calls[i].url, <<>>)
    /\ UNCHANGED <<dirs, calls>>
    /\ MapperFrame

\* ------------------------------------------------------------ rate limiter
\* Variant of WaitTime that never waits.
WaitTimeNone(cur, last, delay) == 0

\* apply_delay, lines 150-153: how long the caller sleeps when the clock reads cur.
WaitTime(cur, last, delay) ==
    IF cur - last < delay THEN delay - (cur - last) ELSE 0

\* The two latest entries of a history.
LastTwo(h) == IF Len(h) <= 2 THEN h ELSE SubSeq(h, Len(h) - 1, Len(h))

\* The request leaves the limiter: last_request_time is stamped and the GET is issued.
Depart(w, slept) ==
    /\ last_request_time' = now
    /\ departures' = LastTwo(Append(departures, [worker |-> w, at |-> now, slept |-> slept]))
    /\ requests' = Bump(requests, wtask[w].url)
    /\ wpc' = [wpc EXCEPT ![w] = "fetch"]

\* Variant of DelayEnter that gives delay_lock back before it sleeps.
DelayEnterSleepsUnlocked(w) ==
    /\ wpc[w] = "delay"
    /\ delay_lock = -1
    /\ IF last_request_time = 0 \/ WaitTime(now, last_request_time, delay_ms) = 0
         THEN /\ Depart(w, FALSE)
              /\ UNCHANGED <<delay_lock, wstart>>
         ELSE /\ delay_lock' = -1
              /\ wstart' = [wstart EXCEPT ![w] = now + WaitTime(now, last_request_time, delay_ms)]
              /\ wpc' = [wpc EXCEPT ![w] = "sleep"]
              /\ UNCHANGED <<last_request_time, departures, requests>>
    /\ UNCHANGED <<faults, thread, orch, arg_cancelled, max_depth, delay_ms, initial_domain, sets,
                   queues, is_cancelled, counters, wtask, widx, wmode, now, enqueued, popped,
                   done_calls, file_added, errors, skipped, finished_signal, file_count_signal,
                   fetch_failed, disk, apart>>

\* apply_delay with a positive delay_ms: the worker takes delay_lock (line 144) and
\* reads the clock; the first request of the run, and one that comes late enough,
\* is stamped at once and the lock released; otherwise the worker goes to sleep
\* holding the lock (line 154).
DelayEnter(w) ==
    /\ wpc[w] = "delay"
    /\ delay_lock = -1
    /\ IF last_request_time = 0 \/ WaitTime(now, last_request_time, delay_ms) = 0
         THEN /\ Depart(w, FALSE)
              /\ UNCHANGED <<delay_lock, wstart>>
         ELSE /\ delay_lock' = w
              /\ wstart' = [wstart EXCEPT ![w] = now + WaitTime(now, last_request_time, delay_ms)]
              /\ wpc' = [wpc EXCEPT ![w] = "sleep"]
              /\ UNCHANGED <<last_request_time, departures, requests>>
    /\ UNCHANGED <<faults, thread, orch, arg_cancelled, max_depth, delay_ms, initial_domain, sets,
                   queues, is_cancelled, counters, wtask, widx, wmode, now, enqueued, popped,
                   done_calls, file_added, errors, skipped, finished_signal, file_count_signal,
                   fetch_failed, disk, apart>>

\* time.sleep returns, not before the time asked for; the stamp is the clock's
\* reading then (line 156) and the lock is released.
DelayWake(w) ==
    /\ wpc[w] = "sleep"
    /\ now >= wstart[w]
    /\ Depart(w, TRUE)
    /\ delay_lock' = -1
    /\ UNCHANGED <<faults, thread, orch, arg_cancelled, max_depth, delay_ms, initial_domain, sets,
                   queues, is_cancelled, counters, wtask, widx, wmode, wstart, now, enqueued,
                   popped, done_calls, file_added, errors, skipped, finished_signal, file_count_signal,
                   fetch_failed, disk, apart>>

\* The clock advances.
Tick ==
    /\ now < MaxTime
    /\ now' = now + 1
    /\ UNCHANGED <<faults, thread, orch, arg_cancelled, max_depth, delay_ms, initial_domain, sets,
                   queues, is_cancelled, counters, workers, last_request_time, delay_lock,
                   wstart, departures, history, finished_signal, file_count_signal,
                   fetch_failed, disk, apart>>

\* delay_lock as held by thread w of the previous run.
OldHolder(w) == 0 - 2 - w

\* What apply_delay in a thread of the previous run leaves alone.
OldDelayFrame ==
    UNCHANGED <<faults, thread, orch, arg_cancelled, max_depth, delay_ms, initial_domain, sets,
                queues, is_cancelled, counters, workers, now, history, finished_signal,
                file_count_signal, fetch_failed, disk, wread, run, old_wtask, calls>>

\* apply_delay with a positive delay_ms in a thread of the previous run that
\* passed the flag test: as DelayEnter (lines 144-154).
OldDelayEnter(w) ==
    /\ old_wpc[w] = "fetch"
    /\ ~SeesCancelled
    /\ delay_ms > 0
    /\ delay_lock = -1
    /\ IF last_request_time = 0 \/ WaitTime(now, last_request_time, delay_ms) = 0
         THEN /\ last_request_time' = now
              /\ departures' = LastTwo(Append(departures,
                                   [worker |-> OldHolder(w), at |-> now, slept |-> FALSE]))
              /\ old_wpc' = [old_wpc EXCEPT ![w] = "request"]
              /\ UNCHANGED <<delay_lock, wstart>>
         ELSE /\ delay_lock' = OldHolder(w)
              /\ wstart' = [wstart EXCEPT ![w] = now + WaitTime(now, last_request_time, delay_ms)]
              /\ old_wpc' = [old_wpc EXCEPT ![w] = "sleep"]
              /\ UNCHANGED <<last_request_time, departures>>
    /\ OldDelayFrame

\* time.sleep returns in a thread of the previous run: as DelayWake (line 156).
OldDelayWake(w) ==
    /\ old_wpc[w] = "sleep"
    /\ now >= wstart[w]
    /\ last_request_time' = now
    /\ departures' = LastTwo(Append(departures,
                         [worker |-> OldHolder(w), at |-> now, slept |-> TRUE]))
    /\ delay_lock' = -1
    /\ old_wpc' = [old_wpc EXCEPT ![w] = "request"]
    /\ UNCHANGED wstart
    /\ OldDelayFrame

\* ------------------------------------------------------------ specification
\* The steps of save_website and DownloadThread.run.
Orchestrator ==
    \/ CallSave
    \/ ResetAndSeed
    \/ Spawn
    \/ JoinPage
    \/ JoinResource
    \/ Finish

\* The steps of page_downloader.
PageWorker ==
    \/ WorkerLoop(PageW)
    \/ WorkerCheck(PageW)
    \/ PageGet
    \/ PageEmpty
    \/ PageFetchFail
    \/ PageFetchOk
    \/ PageExtract
    \/ PageSave

\* The steps of resource_downloader in thread w.
ResWorker(w) ==
    \/ WorkerLoop(w)
    \/ WorkerCheck(w)
    \/ ResGet(w)
    \/ ResEmpty(w)
    \/ ResFetch(w)

\* The steps of the program's own threads.
Program ==
    \/ Orchestrator
    \/ PageWorker
    \/ \E w \in ResWs : ResWorker(w)

Next == Program \/ Cancel

Spec == Init /\ [][Next]_vars

\* Runs in which cancellation is never requested, every thread that can take a
\* step eventually being scheduled.
SpecFair ==
    /\ Init
    /\ [][Program]_vars
    /\ WF_vars(Orchestrator)
    /\ WF_vars(PageWorker)
    /\ \A w \in ResWs : WF_vars(ResWorker(w))

\* Paced runs: a depth-limited crawl with a positive rate interval and every
\* resource worker, under a clock.
InitRate ==
    InitWith([url |-> Seed, mode |-> "depth_limited", depth |-> MinDepth, delay |-> RateInterval,
              threads |-> MaxThreads, faults |-> FALSE])

NextRate ==
    \/ Orchestrator
    \/ \E w \in Workers : WorkerLoop(w)
    \/ \E w \in Workers : WorkerCheck(w)
    \/ PageGet
    \/ PageEmpty
    \/ PageFetchOk
    \/ PageExtract
    \/ PageSave
    \/ \E w \in ResWs : ResGet(w)
    \/ \E w \in ResWs : ResEmpty(w)
    \/ \E w \in ResWs : ResFetch(w)
    \/ \E w \in Workers : DelayEnter(w)
    \/ \E w \in Workers : DelayWake(w)
    \/ Tick

SpecRate == InitRate /\ [][NextRate]_vars

\* Two runs on one engine: a current-page run with one resource worker, and
\* after it has finished a second run; cancellation can be requested in both.
InitRuns ==
    InitWith([url |-> Seed, mode |-> "current_page", depth |-> AllPagesDepth, delay |-> 0,
              threads |-> 1, faults |-> TRUE])

NextRuns ==
    \/ Next
    \/ Restart
    \/ \E w \in Workers : OldWorker(w)

SpecRuns == InitRuns /\ [][NextRuns]_vars

\* Two runs on one engine, under a clock: a paced current-page run with one
\* resource worker and, after it has finished, a second run with the delay spin
\* box at 0 or at the rate interval; every request and every write succeeds and
\* nobody cancels.
InitPaced ==
    InitWith([url |-> Seed, mode |-> "current_page", depth |-> AllPagesDepth,
              delay |-> RateInterval, threads |-> 1, faults |-> FALSE])

NextPaced ==
    \/ NextRate
    \/ RestartWith({0, RateInterval})
    \/ \E w \in Workers : OldWorker(w)
    \/ \E w \in Workers : OldDelayEnter(w)
    \/ \E w \in Workers : OldDelayWake(w)

SpecPaced == InitPaced /\ [][NextPaced]_vars

\* Crawls of the fourth site over all its pages, with one or more resource
\* workers; requests and writes can fail and cancellation can be requested.
StartFramed ==
    { [url |-> MSeed, mode |-> "all_pages", depth |-> AllPagesDepth, delay |-> 0, threads |-> t,
       faults |-> TRUE] : t \in 1..MaxThreads }

InitFramed == \E p \in StartFramed : InitWith(p)

SpecFramed == InitFramed /\ [][Next]_vars

\* The path mapper called from outside a crawl, on a disk that holds what
\* earlier calls and writes left.
InitMapper ==
    InitWith([url |-> Seed, mode |-> "current_page", depth |-> AllPagesDepth, delay |-> 0,
              threads |-> 1, faults |-> TRUE])

NextMapper == MapCall \/ MapSave

SpecMapper == InitMapper /\ [][NextMapper]_vars

\* Crawls of the second and the third site in which every request and every
\* write succeeds and nobody cancels, the counter taken step by step.
StartScenarios ==
    { [url |-> u, mode |-> "depth_limited", depth |-> d, delay |-> 0, threads |-> t,
       faults |-> FALSE] : u \in {E2eSeed, QSeed}, d \in MinDepth..MaxDepth, t \in 1..MaxThreads }

InitScenario == \E p \in StartScenarios : InitWith(p)

NextScenario ==
    \/ Orchestrator
    \/ \E w \in Workers : WorkerLoop(w)
    \/ \E w \in Workers : WorkerCheck(w)
    \/ PageGet
    \/ PageEmpty
    \/ PageFetchOk
    \/ PageExtract
    \/ PageSaveLoad
    \/ \E w \in ResWs : ResGet(w)
    \/ \E w \in ResWs : ResEmpty(w)
    \/ \E w \in ResWs : ResFetchLoad(w)
    \/ \E w \in Workers : CountStore(w)

SpecScenario == InitScenario /\ [][NextScenario]_vars

\* ------------------------------------------------------------------ claims
\* The number of file_added_signal emissions so far.
FilesSaved == BagCardinality(file_added)

\* The workers that hold a popped task that is not yet marked done.
InFlight(u) == {w \in Workers : wtask[w] # NoTask /\ wtask[w].url = u}

Seeded == orch \notin {"start", "reset"}

\* C1: no URL is put on a work queue twice, the two queues counted together, and
\* every URL that has been put on a queue is in the claimed set from the very
\* step of its enqueue on.
C1_NoDoubleEnqueue ==
    /\ \A i, j \in DOMAIN enqueued : i # j => enqueued[i].url # enqueued[j].url
    /\ \A i \in DOMAIN enqueued : enqueued[i].url \in downloaded_resources

\* The stylesheet has been claimed from the seed page and page /a, which
\* references it again, has been scanned past that reference.
C1_Witness ==
    /\ wtask[PageW].url = UrlA
    /\ wpc[PageW] \in {"extract", "save"}
    /\ widx >= 2
    /\ \E i \in DOMAIN enqueued : enqueued[i].url = UrlCss

\* C2: in a run in which cancellation is never requested and every thread is
\* scheduled fairly, the orchestrator eventually passes the completion barrier
\* and the completion signal is emitted.
C2_RunCompletes == <>(orch = "finished")

\* C3: a run in which cancellation was requested does not get stuck before
\* finished_signal is emitted: some thread of the program can take a step until
\* then.
C3_CancelledRunFinishes ==
    (thread.is_cancelled /\ orch # "finished") => ENABLED Program

\* C4: once both joins of save_website have returned, no task is queued or in
\* flight and every task ever enqueued has been marked done.
C4_BarrierMeansAllDone ==
    orch \in {"returned", "finished"} =>
        /\ page_queue = <<>>
        /\ resource_queue = <<>>
        /\ \A w \in Workers : wtask[w] = NoTask
        /\ \A i \in DOMAIN enqueued : CopiesIn(enqueued[i].url, done_calls) = 1

\* The barrier was passed in a run whose page worker enqueued pages and
\* resources while the orchestrator was already waiting.
C4_Witness ==
    /\ orch = "finished"
    /\ Len(enqueued) >= 4

\* C5: in a depth-limited run with max depth m every PageTask ever enqueued has
\* depth <= m.
C5_DepthBounded ==
    thread.download_mode = "depth_limited" =>
        \A i \in DOMAIN enqueued :
            enqueued[i].queue = "page" => enqueued[i].depth <= thread.max_depth

\* A page at the depth limit, carrying a link to a page that was never claimed,
\* has been scanned to its end.
C5_Witness ==
    /\ thread.download_mode = "depth_limited"
    /\ wtask[PageW].url = UrlA
    /\ wtask[PageW].depth = thread.max_depth
    /\ wpc[PageW] = "save"
    /\ UrlB \notin downloaded_resources

\* C6 as stated: a finished current-page run has enqueued the seed only, kept the
\* estimate at 1 and emitted exactly one file_added_signal.
C6_ExactlyOneFile ==
    (thread.download_mode = "current_page" /\ orch = "finished") =>
        /\ Len(enqueued) = 1
        /\ total_files = 1
        /\ FilesSaved = 1

\* C6 as amended: in a current-page run nothing but the seed is ever enqueued, the
\* estimate stays 1 and at most one file_added_signal is emitted, for the seed;
\* exactly one once the seed's request was issued and ended without error.
C6_OnlyTheSeed ==
    (thread.download_mode = "current_page" /\ Seeded) =>
        /\ enqueued = <<[url |-> Seed, queue |-> "page", depth |-> 0]>>
        /\ resource_queue = <<>>
        /\ total_files = 1
        /\ FilesSaved = CopiesIn(Seed, file_added)
        /\ CopiesIn(Seed, file_added) <= 1
        /\ (orch = "finished" /\ CopiesIn(Seed, requests) = 1 /\ Seed \notin errors)
              => CopiesIn(Seed, file_added) = 1

\* A current-page run has fetched and saved its seed page, which carries links
\* and resources, and has finished.
C6_Witness ==
    /\ thread.download_mode = "current_page"
    /\ orch = "finished"
    /\ CopiesIn(Seed, file_added) = 1
    /\ Len(Doc(Seed).refs) > 0

\* C7: with a rate interval d > 0, of any two consecutive requests the later
\* one leaves the rate limiter at least d after the earlier one, whichever
\* workers issue them.
C7_GlobalSpacing ==
    (delay_ms > 0 /\ Len(departures) = 2) =>
        departures[2].at - departures[1].at >= delay_ms

\* Two consecutive requests left the limiter from different workers, the later
\* one after sleeping in it.
C7_Witness ==
    /\ Len(departures) = 2
    /\ departures[1].worker # departures[2].worker
    /\ departures[2].slept

\* C8: every URL ever enqueued has the run's initial domain as its authority, and
\* the scope filter rejects the empty URL, javascript: and mailto: URLs and the
\* URLs of other authorities, subdomains included.
C8_InScopeOnly ==
    Seeded =>
        /\ \A i \in DOMAIN enqueued : enqueued[i].url.netloc = thread.url.netloc
        /\ \A u \in AllUrls \cup {EmptyUrl} :
              is_valid_url(u, initial_domain) =>
                  /\ u # EmptyUrl
                  /\ u.scheme \notin {"javascript", "mailto"}
                  /\ u.netloc = thread.url.netloc
        /\ \A r \in {EmptyUrl, RefJs, RefMail, RefSubPng, RefOther} :
              ~is_valid_url(r, initial_domain)

\* Both pages that carry out-of-scope references have been scanned to the end.
C8_Witness ==
    /\ wtask[PageW].url = UrlA
    /\ wpc[PageW] = "save"
    /\ CopiesIn(Seed, popped) = 1

C10_Accounting ==
    /\ page_unfinished = Len(page_queue) + (IF wtask[PageW] # NoTask THEN 1 ELSE 0)
    /\ resource_unfinished
         = Len(resource_queue) + Cardinality({w \in ResWs : wtask[w] # NoTask})
    /\ \A u \in AllUrls :
          /\ CopiesIn(u, popped) <= 1
          /\ CopiesIn(u, done_calls) + Cardinality(InFlight(u)) = CopiesIn(u, popped)
    /\ \A u \in errors :
          /\ \A i \in DOMAIN page_queue : page_queue[i].url # u
          /\ \A i \in DOMAIN resource_queue : resource_queue[i] # u

\* A step that reports a failure marks the failed task done and leaves its
\* worker at the loop test.
C10_FailureStep ==
    \A u \in AllUrls :
        (u \notin errors /\ u \in errors') =>
            /\ CopiesIn(u, done_calls') = CopiesIn(u, done_calls) + 1
            /\ \A w \in Workers : wpc'[w] # wpc[w] => wpc'[w] = "loop"

\* C10: every popped task is marked done exactly once whether its fetch succeeds
\* or fails, a failed task is never put back on a queue, and the worker that
\* handled it goes back to its loop.
C10_DoneExactlyOnce == []C10_Accounting /\ [][C10_FailureStep]_vars

\* With a single resource worker, the worker whose first task failed holds the
\* next task.
C10_Witness ==
    /\ thread.thread_count = 1
    /\ UrlPng \in errors
    /\ CopiesIn(UrlPng, done_calls) = 1
    /\ wtask[1].url = UrlCss

\* C11: a run whose start URL could not be fetched produces no file and ends
\* with a finished_signal that does not report success.
C11_FailedSeedFailsRun ==
    (orch = "finished" /\ thread.url \in fetch_failed) =>
        /\ files = {}
        /\ FilesSaved = 0
        /\ finished_signal = <<FALSE>>

\* The path of a file under the run's save directory.
Under(names) == PathJoin(SaveDir(initial_domain), names)

\* The paths of the files on the disk.
FilePaths == {f.path : f \in files}

\* The document saved for a page, as the sequence of its attribute values.
SavedValues(path) ==
    LET f == CHOOSE g \in files : g.path = path
    IN  [i \in DOMAIN f.doc |-> IF f.doc[i].rewritten THEN f.doc[i].value ELSE <<"as served">>]

StyleCss == <<"s", "t", "y", "l", "e", ".", "c", "s", "s">>

\* The run of the end-to-end scenario has passed its barrier.
E2eDone ==
    /\ thread.url = E2eSeed
    /\ thread.max_depth = 1
    /\ orch = "finished"

\* C12 as stated: the scenario leaves exactly index.html, style.css and
\* a/index.html, the saved front page pointing at style.css and a/index.html, the
\* estimate at 3 and two file_added emissions besides the seed's.
C12_EndToEndAsStated ==
    E2eDone =>
        /\ FilePaths = {Under(IndexHtml), Under(StyleCss), Under(<<"a", "/">> \o IndexHtml)}
        /\ SavedValues(Under(IndexHtml)) = <<StyleCss, <<"a", "/">> \o IndexHtml>>
        /\ total_files = 3
        /\ FilesSaved - CopiesIn(E2eSeed, file_added) = 2

\* C12 as amended: the page /a is saved as the file a, and the front page's
\* anchor is rewritten to a; the rest as stated.
C12_EndToEnd ==
    E2eDone =>
        /\ FilePaths = {Under(IndexHtml), Under(StyleCss), Under(<<"a">>)}
        /\ SavedValues(Under(IndexHtml)) = <<StyleCss, <<"a">>>>
        /\ total_files = 3
        /\ CopiesIn(E2eSeed, file_added) = 1
        /\ FilesSaved - CopiesIn(E2eSeed, file_added) = 2

\* The scenario's run has finished with all three files written.
C12_Witness ==
    /\ E2eDone
    /\ Cardinality(files) = 3
    /\ CopiesIn(E2eA, file_added) = 1

\* C13: in a run that is not in current-page mode, every saved page has each of
\* its in-scope resource references in a tag attribute rewritten to the
\* resource's local path relative to the page's own directory, also a reference
\* to a resource that was claimed before.
C13_EveryReferenceRewritten ==
    (Seeded /\ thread.download_mode # "current_page") =>
        \A f \in files :
            \A i \in DOMAIN Doc(f.url).refs :
                LET r == Doc(f.url).refs[i]
                    abs == get_absolute_url(f.url, r.ref)
                IN  (r.kind = "tag" /\ is_valid_url(abs, initial_domain)) =>
                        /\ f.doc[i].rewritten
                        /\ f.doc[i].value = LocalRef(abs, f.url, SaveDir(initial_domain))

\* No worker holds a task.
AllIdle == \A w \in Workers : wtask[w] = NoTask

\* C14: whenever all workers are idle, downloaded_files is the number of pages
\* and resources that were written in the run, under every interleaving of the
\* workers' loads and stores of the counter.
C14_NoLostUpdate ==
    (Seeded /\ AllIdle) => downloaded_files = FilesSaved

\* C15: finished_signal is emitted at most once in a run, and never with
\* success = TRUE in a run whose cancellation was requested before
\* DownloadThread.run took its decision.
C15_OneHonestSignal ==
    /\ Len(finished_signal) <= 1
    /\ (Len(finished_signal) = 1) <=> (orch = "finished")
    /\ thread.is_cancelled => \A i \in DOMAIN finished_signal : ~finished_signal[i]

\* A run that was cancelled before reset_state cleared the engine's flag went
\* through to the end, saved files and reported the cancellation.
C15_Witness ==
    /\ orch = "finished"
    /\ thread.is_cancelled
    /\ ~is_cancelled
    /\ files # {}
    /\ finished_signal = <<FALSE>>

\* C16: when the worker threads of a second run are about to be started, the two
\* sets hold the new seed only, the page queue the new seed task only, the
\* resource queue nothing, downloaded_files and last_request_time are 0, and the
\* engine's flag is set only if the new run itself has been cancelled.
C16_CleanStart ==
    (run = 2 /\ orch = "spawn") =>
        /\ visited_urls = {thread.url}
        /\ downloaded_resources = {thread.url}
        /\ page_queue = <<[url |-> thread.url, domain |-> thread.url.netloc, depth |-> 0]>>
        /\ resource_queue = <<>>
        /\ downloaded_files = 0
        /\ last_request_time = 0
        /\ is_cancelled => thread.is_cancelled

\* The URLs of a site, the ones that differ from them in query or fragment
\* included.
WebUrls == {u \in AllUrls : u.netloc # ""}

PPng == <<"p", ".", "p", "n", "g">>

\* The third site's run has passed its barrier.
QDone == thread.url = QSeed /\ orch = "finished"

\* URLs with the same path have the same local path under every save directory.
SamePathSameFile ==
    \A u1, u2 \in WebUrls :
        \A h \in SiteHosts :
            u1.path = u2.path => LocalPaths[h][u1] = LocalPaths[h][u2]

\* C17: two URLs with the same path that differ in query or fragment only are
\* mapped to the same local path under any save directory; the dedup set holds
\* them as different URLs, so that a run enqueues and fetches each of them and
\* writes them all to one file.
C17_QueryCollision ==
    /\ SamePathSameFile
    /\ QDone =>
          /\ {QPng1, QPng2, QPngF} \subseteq downloaded_resources
          /\ \A u \in {QPng1, QPng2, QPngF} :
                /\ Cardinality({i \in DOMAIN enqueued : enqueued[i].url = u}) = 1
                /\ CopiesIn(u, file_added) = 1
          /\ \A f \in files : f.url \in {QPng1, QPng2, QPngF} => f.path = Under(PPng)
          /\ Cardinality({f \in files : f.path = Under(PPng)}) = 1
          /\ Cardinality(files) = 3

\* The run of the third site has fetched and written the image under both query
\* strings and with the fragment.
C17_Witness ==
    /\ QDone
    /\ Cardinality({u \in WebUrls : u.path = QPng1.path /\ CopiesIn(u, file_added) = 1}) = 3
    /\ \E f \in files : f.path = Under(PPng)

\* C18: of two get_local_path calls with the same URL and save directory, if the
\* first returned a path then the second returns the same path and does not
\* raise, the directories being there already.
C18_Idempotent ==
    \A i, j \in DOMAIN calls :
        (i < j /\ calls[i].url = calls[j].url /\ calls[i].dir = calls[j].dir
               /\ ~calls[i].raised) =>
            /\ ~calls[j].raised
            /\ calls[j].path = calls[i].path
            /\ DirsUpTo(dirname(calls[j].path)) \subseteq dirs

\* A URL in a subdirectory was mapped, which made the directory, its file was
\* written, another URL was mapped, and the first URL was mapped again.
C18_Witness ==
    /\ Len(calls) = 3
    /\ calls[1].url = QDir /\ calls[3].url = QDir
    /\ calls[1].dir = calls[3].dir
    /\ calls[2].url # QDir
    /\ ~calls[3].raised
    /\ IsFile(calls[1].path)

C20_Hops ==
    \A i \in DOMAIN enqueued :
        /\ enqueued[i].url = thread.url => enqueued[i].depth = 0
        /\ enqueued[i].url = UrlA => enqueued[i].depth = 1
        /\ enqueued[i].url = UrlB => enqueued[i].depth = 2

\* A step that puts a page task does so while a page is being scanned, and the
\* new task's depth is that page's depth plus one.
C20_Step ==
    (Len(page_queue') > Len(page_queue) /\ orch # "reset") =>
        /\ wpc[PageW] = "extract"
        /\ page_queue'[Len(page_queue')].depth = wtask[PageW].depth + 1
        /\ enqueued'[Len(enqueued')].depth = wtask[PageW].depth + 1

\* C20: the depth of a page task is its number of link hops from the seed: 0 for
\* the seed, and d + 1 for a task enqueued while a page of depth d is processed.
C20_DepthIsHops == []C20_Hops /\ [][C20_Step]_vars

\* The page /b, two hops from the seed, has been enqueued.
C20_Witness ==
    \E i \in DOMAIN enqueued : enqueued[i].url = UrlB /\ enqueued[i].queue = "page"

\* The run's mode lets the links of a page of depth d be followed.
C21_ModeAllows(d) ==
    /\ thread.download_mode # "current_page"
    /\ thread.download_mode = "all_pages" \/ d < thread.max_depth

\* The target of a link can become a page task: it is in scope, its path does
\* not end in a resource extension, and it is neither visited nor claimed.
C21_Eligible(abs) ==
    /\ abs # EmptyUrl
    /\ abs.scheme \notin {"javascript", "mailto"}
    /\ abs.netloc # ""
    /\ abs.netloc = thread.url.netloc
    /\ ~\E e \in ResourceExts : EndsWith(Lower(abs.path), e)
    /\ abs \notin visited_urls
    /\ abs \notin downloaded_resources

\* A step that scans one reference of a page puts the page task of its target
\* exactly when the reference is a hyperlink, the mode allows it and the target
\* is eligible; no other step after the seeding puts a page task.
C21_Step ==
    /\ (wpc[PageW] = "extract" /\ widx' = widx + 1) =>
          LET t == wtask[PageW]
              r == Doc(t.url).refs[widx]
              abs == urljoin(t.url, r.ref)
              put == [url |-> abs, queue |-> "page", depth |-> t.depth + 1]
          IN  (enqueued' = Append(enqueued, put))
                 <=> (r.kind = "a" /\ C21_ModeAllows(t.depth) /\ C21_Eligible(abs))
    /\ (Len(enqueued') > Len(enqueued) /\ enqueued'[Len(enqueued')].queue = "page"
           /\ orch # "reset") =>
          (wpc[PageW] = "extract" /\ widx' = widx + 1)

\* In all-pages mode the guard of the anchor pass holds below, at and above
\* max_depth.
C21_AllPages ==
    wmode = "all_pages" =>
        \A d \in {0, max_depth - 1, max_depth, max_depth + 1} : FollowsLinks(wmode, d)

\* C21: a hyperlink on a page of depth d is enqueued as a page task exactly when
\* the mode is not current-page, the mode is all-pages or d < max_depth, the
\* target is in scope, its path has no resource extension and it is neither
\* visited nor claimed; in all-pages mode the depth plays no part.
C21_LinksFollowed == []C21_AllPages /\ [][C21_Step]_vars

\* An all-pages run has enqueued /b from a page at depth 1, the smallest depth
\* limit of the form, and has scanned past a link to a resource and a link to a
\* page already visited.
C21_Witness ==
    /\ thread.download_mode = "all_pages"
    /\ \E i \in DOMAIN enqueued : enqueued[i].url = UrlB /\ enqueued[i].depth = MinDepth + 1
    /\ wtask[PageW].url = UrlA
    /\ wpc[PageW] = "save"
    /\ CopiesIn(Seed, popped) = 1

\* file_added_signal is emitted at most once for a URL, and only for a URL that
\* was requested, whose file is on the disk and for which no failure was
\* reported; a task that is done without a file_added_signal was either turned
\* away by the cancellation flag or reported as failed.
C22_SavedMeansSucceeded ==
    /\ \A u \in BagToSet(file_added) :
          /\ CopiesIn(u, file_added) = 1
          /\ CopiesIn(u, requests) = 1
          /\ u \notin errors
          /\ IsFile(LocalPaths[initial_domain][u])
    /\ \A u \in errors : CopiesIn(u, file_added) = 0
    /\ \A u \in BagToSet(done_calls) :
          CopiesIn(u, file_added) = 0 => (u \in errors \/ u \in skipped)

\* A step that reports a failure emits no file_added_signal and leaves the
\* count of completed files as it is.
C22_FailureStep ==
    errors' # errors =>
        /\ file_added' = file_added
        /\ downloaded_files' = downloaded_files

\* C22: file_added_signal is emitted at most once per URL in a run and only for
\* a task whose fetch and write succeeded; a failed task emits none, leaves the
\* completed count unchanged and is reported as progress text or in the log.
C22_SavedOnceOnSuccess == []C22_SavedMeansSucceeded /\ [][C22_FailureStep]_vars

\* The run has finished: the image's download failed after its request was
\* issued, the stylesheet and the seed page were saved and announced.
C22_Witness ==
    /\ orch = "finished"
    /\ UrlPng \in errors
    /\ CopiesIn(UrlPng, requests) = 1
    /\ CopiesIn(UrlCss, file_added) = 1
    /\ CopiesIn(Seed, file_added) = 1
    /\ ~thread.is_cancelled

\* After the seeding the estimate is 1 plus the tasks claimed since, that is the
\* number of tasks ever enqueued, and the latest file_count_signal carried it;
\* one file_count_signal was emitted for the seeding and one for every claim.
C23_Announced ==
    Seeded =>
        /\ total_files >= 1
        /\ total_files = Len(enqueued)
        /\ file_count_signal.last = total_files
        /\ file_count_signal.emitted = total_files

\* After the seeding the estimate never decreases; a step changes it, the
\* claimed set or the enqueued tasks only by claiming one URL that was not
\* claimed, enqueueing it, adding 1 to the estimate and emitting the new value.
C23_Step ==
    Seeded =>
        /\ total_files' >= total_files
        /\ (\/ total_files' # total_files
            \/ enqueued' # enqueued
            \/ downloaded_resources' # downloaded_resources) =>
              /\ total_files' = total_files + 1
              /\ Len(enqueued') = Len(enqueued) + 1
              /\ SubSeq(enqueued', 1, Len(enqueued)) = enqueued
              /\ enqueued'[Len(enqueued')].url \notin downloaded_resources
              /\ downloaded_resources'
                    = downloaded_resources \cup {enqueued'[Len(enqueued')].url}
              /\ file_count_signal'
                    = [emitted |-> file_count_signal.emitted + 1, last |-> total_files']

\* C23: within a run the total-file estimate never decreases after the seeding,
\* grows by exactly 1 with each newly claimed and enqueued task, and every
\* increase is announced by a file_count_signal that carries the new value.
C23_EstimateGrowsByClaims == []C23_Announced /\ [][C23_Step]_vars

\* The estimate has grown to 5 while pages were scanned: the seed, two
\* resources and two pages.
C23_Witness ==
    /\ total_files = 5
    /\ file_count_signal = [emitted |-> 5, last |-> 5]
    /\ Cardinality({i \in DOMAIN enqueued : enqueued[i].queue = "page"}) = 3
    /\ wpc[PageW] = "extract"

\* No thread, of this run or left over from the previous one, is inside the rate
\* limiter's critical section.
C24_LimiterIdle ==
    /\ delay_lock = -1
    /\ \A w \in Workers : wpc[w] # "sleep" /\ old_wpc[w] # "sleep"

\* With a zero interval nobody holds delay_lock and last_request_time stays as
\* reset_state left it; with a positive interval, until the first request of the
\* run has left the limiter nobody sleeps in it, and the first request left it
\* without sleeping.
C24_Edges ==
    Seeded =>
        /\ delay_ms <= 0 => (C24_LimiterIdle /\ last_request_time = 0 /\ departures = <<>>)
        /\ (delay_ms > 0 /\ departures = <<>>) => (C24_LimiterIdle /\ last_request_time = 0)
        /\ (delay_ms > 0 /\ Len(departures) = 1) =>
              (~departures[1].slept /\ last_request_time = departures[1].at)

\* With a zero interval a step that issues a request leaves delay_lock and
\* last_request_time alone; with a positive interval the step in which the first
\* request of the run leaves the limiter stamps last_request_time with the
\* clock's reading and does not take the lock to sleep.
C24_Step ==
    Seeded =>
        /\ (delay_ms <= 0 /\ requests' # requests) =>
              (last_request_time' = last_request_time /\ delay_lock' = delay_lock)
        /\ (delay_ms > 0 /\ departures = <<>> /\ departures' # <<>>) =>
              /\ last_request_time' = now
              /\ now' = now
              /\ delay_lock' = -1

\* C24: with a zero interval a request neither takes delay_lock nor changes
\* last_request_time; with a positive interval the first request of a run never
\* waits and only stamps last_request_time, also on an engine that has performed
\* requests in an earlier run.
C24_LimiterEdgeCases == []C24_Edges /\ [][C24_Step]_vars

\* The second run is paced and its first request has left the limiter while the
\* clock still reads what it read when the first run's request was stamped.
C24_Witness ==
    /\ run = 2
    /\ delay_ms > 0
    /\ now = 1
    /\ Len(departures) = 1
    /\ IsFile(LocalPaths[Host][Seed])

\* The steps of worker thread w outside the rate limiter.
C25_StepOf(w) == IF w = PageW THEN PageWorker ELSE ResWorker(w)

\* C25 as stated: no worker sleeps inside the rate limiter while another worker
\* waits for a lock the sleeper holds.
C25_SleepBlocksOnlyCaller ==
    ~\E s, w \in Workers :
        /\ s # w
        /\ wpc[s] = "sleep"
        /\ delay_lock = s
        /\ wpc[w] = "delay"
        /\ ~ENABLED DelayEnter(w)

\* C25 as amended: a worker sleeps inside the rate limiter holding delay_lock,
\* for no longer than the interval; meanwhile a worker that calls the rate
\* limiter waits for delay_lock, nobody else sleeps, and every worker that is
\* not calling the rate limiter can take its next step; the orchestrator waits
\* for unfinished tasks only.
C25_SleepHoldsLimiterLockOnly ==
    /\ \A s \in Workers :
          wpc[s] = "sleep" =>
              /\ delay_lock = s
              /\ wstart[s] - now <= delay_ms
              /\ \A w \in Workers \ {s} :
                    /\ wpc[w] # "sleep"
                    /\ wpc[w] = "delay" => ~ENABLED DelayEnter(w)
                    /\ wpc[w] \notin {"delay", "unstarted", "exited"} => ENABLED C25_StepOf(w)
    /\ (orch = "join_page" /\ ~ENABLED Orchestrator) => page_unfinished > 0
    /\ (orch = "join_resource" /\ ~ENABLED Orchestrator) => resource_unfinished > 0

\* One resource worker sleeps inside the rate limiter, the other waits for
\* delay_lock, and the page worker goes on scanning its page.
C25_Witness ==
    /\ \E s, w \in ResWs : s # w /\ wpc[s] = "sleep" /\ delay_lock = s /\ wpc[w] = "delay"
    /\ wpc[PageW] = "extract"

\* After the seeding the estimate is the size of the claimed set.
C26_EstimateIsClaimed ==
    Seeded => total_files = Cardinality(downloaded_resources)

\* After the seeding a step changes the estimate exactly when it changes the
\* claimed set, and then it is a step of extract_resources that adds one URL and
\* adds 1.
C26_Step ==
    Seeded =>
        /\ (total_files' # total_files) <=> (downloaded_resources' # downloaded_resources)
        /\ total_files' # total_files =>
              /\ wpc[PageW] = "extract"
              /\ total_files' = total_files + 1
              /\ downloaded_resources \subseteq downloaded_resources'
              /\ Cardinality(downloaded_resources') = Cardinality(downloaded_resources) + 1

\* C26: whenever self.lock is free after the seeding, total_files is the number
\* of URLs in downloaded_resources; every insertion is paired with one increment
\* in the same critical section and nothing else changes either during a run.
C26_EstimateMatchesClaimedSet == []C26_EstimateIsClaimed /\ [][C26_Step]_vars

\* A crawl of three pages and two resources has finished: five URLs are
\* claimed, references to claimed URLs having been met again on the way.
C26_Witness ==
    /\ orch = "finished"
    /\ Cardinality(downloaded_resources) = 5
    /\ Cardinality(visited_urls) = 3
    /\ total_files = 5

\* The counter of completed files is at most the estimate.
C27_CountWithinEstimate == downloaded_files <= total_files

\* The estimate never shrinks once the run is seeded, and a step that stores to
\* the counter, which is the step that sends the progress notification, sends a
\* count that is at most the estimate it sends.
C27_Step ==
    /\ Seeded => total_files' >= total_files
    /\ downloaded_files' # downloaded_files =>
          /\ downloaded_files' <= total_files'
          /\ total_files' = total_files

\* C27: in every state of a run the completed-file count is at most the total
\* estimate.  A progress notification carries the counter as it is read after
\* the store and the estimate as it is read after that; the estimate never
\* shrinks in between, so its two numbers are in the same order.
C27_CompletedWithinEstimate == []C27_CountWithinEstimate /\ [][C27_Step]_vars

\* The run has passed its barrier with every file of the estimate counted, the
\* page worker and a resource worker having stored to the counter.
C27_Witness ==
    /\ orch = "returned"
    /\ total_files = 3
    /\ downloaded_files = 3
    /\ FilesSaved = 3

\* C28: every visited URL is a claimed URL, the visited URLs are exactly those
\* put on the page queue, and no URL is ever put on both queues, whether it is
\* first embedded and then linked to or the other way round.
C28_VisitedWithinClaimed ==
    /\ visited_urls \subseteq downloaded_resources
    /\ \A i \in DOMAIN enqueued :
         (enqueued[i].queue = "page") <=> (enqueued[i].url \in visited_urls)
    /\ \A i, j \in DOMAIN enqueued :
         enqueued[i].url = enqueued[j].url => enqueued[i].queue = enqueued[j].queue

\* The framed document went on the resource queue, and the page worker has
\* since scanned the front page's link to it, the second page's frame of the
\* front page and the second page's link to the framed document.
C28_Witness ==
    /\ wtask[PageW].url = MPage
    /\ wpc[PageW] = "save"
    /\ enqueued = << [url |-> MSeed, queue |-> "page", depth |-> 0],
                     [url |-> MFrame, queue |-> "resource", depth |-> 0],
                     [url |-> MPage, queue |-> "page", depth |-> 1] >>

\* The references of page task t that the worker's mode and the page's depth
\* let extract_resources claim, as absolute URLs.
C29_Discovered(t) ==
    IF Doc(t.url).ctype # "text/html" \/ ~ExtractsResources(wmode) THEN {}
    ELSE { urljoin(t.url, Doc(t.url).refs[i].ref) :
             i \in { k \in DOMAIN Doc(t.url).refs :
                       LET r == Doc(t.url).refs[k]
                           abs == urljoin(t.url, r.ref)
                       IN  /\ is_valid_url(abs, t.domain)
                           /\ r.kind = "a" => /\ FollowsLinks(wmode, t.depth)
                                              /\ ~IsResourcePath(abs.path) } }

\* A put after the seeding is made by the page worker while the task it holds
\* is not marked done; and when the page worker marks done a page it has
\* fetched, every task discovered on the page is on record as enqueued.
C29_Step ==
    /\ (Seeded /\ enqueued' # enqueued) =>
          /\ wtask[PageW] # NoTask
          /\ CopiesIn(wtask[PageW].url, done_calls') = 0
          /\ page_unfinished > 0
    /\ (wpc[PageW] = "save" /\ CopiesIn(wtask[PageW].url, done_calls') = 1) =>
          \A u \in C29_Discovered(wtask[PageW]) :
             \E i \in DOMAIN enqueued : enqueued[i].url = u
    /\ (Seeded /\ page_unfinished = 0) =>
          /\ enqueued' = enqueued
          /\ page_unfinished' = 0
          /\ resource_unfinished' <= resource_unfinished

\* After the seeding, a page queue without outstanding items holds no task and
\* the page worker holds none.
C29_Drained ==
    (Seeded /\ page_unfinished = 0) => (page_queue = <<>> /\ wtask[PageW] = NoTask)

\* C29: every task discovered on a page is enqueued before the page's own task
\* is marked done, so once the page queue has no outstanding item no put on
\* either queue happens in the run.
C29_EnqueueBeforeDone == []C29_Drained /\ [][C29_Step]_vars

\* The page queue has no outstanding item left after three pages were marked
\* done, the resource queue still has, and every enqueue has been made.
C29_Witness ==
    /\ page_unfinished = 0
    /\ resource_unfinished > 0
    /\ Len(enqueued) = 5
    /\ CopiesIn(Seed, done_calls) = 1 /\ CopiesIn(UrlA, done_calls) = 1
    /\ CopiesIn(UrlB, done_calls) = 1

\* C30: no thread of a previous run ever pops or processes a task of the run
\* that was started after it: in the second run the threads of the first run
\* hold no task and are nowhere in download_page or download_file.
C30_NoLeftoverConsumer ==
    run = 2 =>
        /\ \A w \in Workers : old_wtask[w] = NoTask
        /\ \A w \in Workers : old_wpc[w] \notin {"fetch", "request", "sleep"}
====
